---- MODULE Spec2Model ----
(***************************************************************************)
(* A model of the core of fcc-ipes: the deduplicator (extract.py), the     *)
(* relevance classifier (filter.py), the identity normalizer, the d/b/a    *)
(* splitter, entity aggregator and record builder (structure.py), the file *)
(* names of the downloader, the text extractor and the enrichment step     *)
(* (download_docs.py, extract_text.py, enrich.py) and the concurrent       *)
(* downloads with their retries (download_docs.py).                        *)
(*                                                                         *)
(* A Python str is a sequence of one-character strings, so that lower(),   *)
(* strip(), the regular expressions, slicing and the lexicographic order   *)
(* of sort() are computed character by character as Python computes them.  *)
(***************************************************************************)
EXTENDS Integers, Sequences, FiniteSets, Bags, TLC

VARIABLES
    n_pc, n_name, n_once, n_twice,
    d_pc, d_queries, d_q, d_i, all_filings, count_before, query_stats,
    filings_raw, meta,
    f_pc, f_filing, f_result,
    b_pc, b_name, b_result,
    s_pc, s_input, s_pos, s_k, company_filings, name_variations, key_order,
    total_filings, excluded_govt, excluded_no_filer, companies, stats,
    z_pc, z_filename, z_download, z_enrich,
    r_pc, r_doc, r_saved, r_output, r_status, r_expected,
    w_pc, w_docs, w_tasks, w_sem, w_results, w_stats

n_vars == <<n_pc, n_name, n_once, n_twice>>
d_vars == <<d_pc, d_queries, d_q, d_i, all_filings, count_before, query_stats,
            filings_raw, meta>>
f_vars == <<f_pc, f_filing, f_result>>
b_vars == <<b_pc, b_name, b_result>>
s_vars == <<s_pc, s_input, s_pos, s_k, company_filings, name_variations, key_order,
            total_filings, excluded_govt, excluded_no_filer, companies, stats>>
z_vars == <<z_pc, z_filename, z_download, z_enrich>>
r_vars == <<r_pc, r_doc, r_saved, r_output, r_status, r_expected>>
w_vars == <<w_pc, w_docs, w_tasks, w_sem, w_results, w_stats>>
vars == <<n_vars, d_vars, f_vars, b_vars, s_vars, z_vars, r_vars, w_vars>>

(***************************************************************************)
(* Python str primitives.                                                  *)
(***************************************************************************)

\* The printable ASCII characters in code-point order, from 32 (space) on;
\* "GRAVE" holds the place of the grave accent (code 96).
Ascii ==
    <<" ", "!", "\"", "#", "$", "%", "&", "'", "(", ")", "*", "+", ",", "-",
      ".", "/", "0", "1", "2", "3", "4", "5", "6", "7", "8", "9", ":", ";",
      "<", "=", ">", "?", "@", "A", "B", "C", "D", "E", "F", "G", "H", "I",
      "J", "K", "L", "M", "N", "O", "P", "Q", "R", "S", "T", "U", "V", "W",
      "X", "Y", "Z", "[", "\\", "]", "^", "_", "GRAVE", "a", "b", "c", "d", "e",
      "f", "g", "h", "i", "j", "k", "l", "m", "n", "o", "p", "q", "r", "s",
      "t", "u", "v", "w", "x", "y", "z", "{", "|", "}", "~">>

\* ord(c): the tab is the one character below the space that the model uses.
CharCode ==
    [c \in {Ascii[i] : i \in 1..Len(Ascii)} \cup {"\t"} |->
        IF c = "\t" THEN 9 ELSE 31 + (CHOOSE i \in 1..Len(Ascii) : Ascii[i] = c)]

\* str.lower() on one character.
LowerChar(c) ==
    IF CharCode[c] >= CharCode["A"] /\ CharCode[c] <= CharCode["Z"]
    THEN Ascii[CharCode[c] + 1]
    ELSE c

\* str.lower()
Lower(s) == [i \in 1..Len(s) |-> LowerChar(s[i])]

\* What \s and str.strip() treat as whitespace.
IsSpace(c) == c \in {" ", "\t"}

\* s[i:] with a 1-based i.
From(s, i) == SubSeq(s, i, Len(s))

\* s[:n]
Prefix(s, n) == SubSeq(s, 1, IF n < Len(s) THEN n ELSE Len(s))

RECURSIVE LStrip(_)
\* str.lstrip()
LStrip(s) == IF s # <<>> /\ IsSpace(Head(s)) THEN LStrip(Tail(s)) ELSE s

RECURSIVE RStripSet(_, _)
\* str.rstrip(chars)
RStripSet(s, chars) ==
    IF s # <<>> /\ s[Len(s)] \in chars
    THEN RStripSet(SubSeq(s, 1, Len(s) - 1), chars)
    ELSE s

\* str.strip()
Strip(s) == RStripSet(LStrip(s), {" ", "\t"})

RECURSIVE StrLess(_, _)
\* a < b in the order of Python on str (lexicographic by code point).
StrLess(a, b) ==
    IF b = <<>> THEN FALSE
    ELSE IF a = <<>> THEN TRUE
    ELSE IF Head(a) = Head(b) THEN StrLess(Tail(a), Tail(b))
    ELSE CharCode[Head(a)] < CharCode[Head(b)]

StrLeq(a, b) == a = b \/ StrLess(a, b)

\* needle in hay
Contains(hay, needle) ==
    \E i \in 1..(Len(hay) - Len(needle) + 1) :
        SubSeq(hay, i, i + Len(needle) - 1) = needle

(***************************************************************************)
(* JSON values as the parsers hand them to the code: a key of an object is *)
(* absent, null, a string or a list.  dict.get(key) of an absent key is    *)
(* None, like the value null.                                              *)
(***************************************************************************)

JAbsent == [t |-> "absent", v |-> <<>>]
JNull == [t |-> "null", v |-> <<>>]
JStr(s) == [t |-> "str", v |-> s]
JList(items) == [t |-> "list", v |-> items]

\* bool(x) of dict.get(key): None and the empty string are falsy.
Truthy(j) == j.t = "str" /\ j.v # <<>>


(***************************************************************************)
(* structure.py: normalize_company_name                                    *)
(***************************************************************************)

RECURSIVE BodyMatch(_, _)
\* Whether t matches the letters of a suffix pattern, each followed by
\* an optional dot, up to the end of the string: l\.?l\.?c\.?$
BodyMatch(t, letters) ==
    IF letters = <<>> THEN t = <<>>
    ELSE /\ t # <<>>
         /\ Head(t) = Head(letters)
         /\ LET r == Tail(t)
            IN  \/ (r # <<>> /\ Head(r) = "." /\ BodyMatch(Tail(r), Tail(letters)))
                \/ BodyMatch(r, Tail(letters))

\* Whether the whole of t matches \s*,?\s*<letters with optional dots>$
SuffixMatch(t, letters) ==
    LET t1 == LStrip(t)
        t2 == IF t1 # <<>> /\ Head(t1) = "," THEN Tail(t1) ELSE t1
    IN  \/ BodyMatch(LStrip(t2), letters)
        \/ BodyMatch(t1, letters)

\* re.sub(pattern, replacement, s) for an end-anchored suffix pattern: the
\* leftmost position from which the pattern matches up to the end is replaced.
ReSubSuffix(s, letters, replacement) ==
    LET starts == {i \in 1..Len(s) : SuffixMatch(From(s, i), letters)}
    IN  IF starts = {} THEN s
        ELSE LET i == CHOOSE j \in starts : \A k \in starts : j <= k
             IN  SubSeq(s, 1, i - 1) \o replacement

\* The (pattern, replacement) table, in the order of the source.
suffixes ==
    << <<"l", "l", "c">>, <<"i", "n", "c">>, <<"c", "o", "r", "p">>,
       <<"l", "l", "p">>, <<"l", "p">>, <<"l", "t", "d">>, <<"c", "o">>,
       <<"p", "l", "l", "c">> >>

RECURSIVE ApplySuffixes(_, _)
\* for pattern, replacement in suffixes: normalized = re.sub(...)
ApplySuffixes(s, k) ==
    IF k > Len(suffixes) THEN s
    ELSE ApplySuffixes(ReSubSuffix(s, suffixes[k], <<" ">> \o suffixes[k]), k + 1)

RECURSIVE CollapseSpace(_)
\* re.sub(r'\s+', ' ', s)
CollapseSpace(s) ==
    IF s = <<>> THEN <<>>
    ELSE IF IsSpace(Head(s)) THEN <<" ">> \o CollapseSpace(LStrip(s))
    ELSE <<Head(s)>> \o CollapseSpace(Tail(s))

normalize_company_name(name) ==
    IF name = <<>> THEN <<>>
    ELSE RStripSet(Strip(CollapseSpace(ApplySuffixes(Strip(Lower(name)), 1))),
                   {".", ","})

(***************************************************************************)
(* structure.py: extract_dba_name.  re.match(pattern, name, re.IGNORECASE) *)
(* of ^(.+?)\s+<marker>\s+(.+)$ : group 1 is the shortest non-empty prefix *)
(* after which a run of whitespace, the marker, whitespace and at least    *)
(* one more character reach the end of the name.                           *)
(***************************************************************************)

\* The index of the last character of the whitespace run that starts at p
\* (p - 1 when there is none).
RECURSIVE WsRunEnd(_, _)
WsRunEnd(s, p) ==
    IF p <= Len(s) /\ IsSpace(s[p]) THEN WsRunEnd(s, p + 1) ELSE p - 1

\* Where the letters, each but the last followed by an optional slash, end
\* when matched from p with the case ignored: d/?b/?a.  0 when they do not match.
RECURSIVE SlashedEnd(_, _, _)
SlashedEnd(s, p, letters) ==
    IF letters = <<>> THEN p - 1
    ELSE IF p > Len(s) \/ LowerChar(s[p]) # Head(letters) THEN 0
    ELSE LET rest == Tail(letters)
             q == IF rest # <<>> /\ p + 1 <= Len(s) /\ s[p + 1] = "/" THEN p + 2 ELSE p + 1
         IN  SlashedEnd(s, q, rest)

\* Where the words, separated by \s+, end when matched from p with the case
\* ignored: doing\s+business\s+as.  0 when they do not match.
RECURSIVE WordsEnd(_, _, _)
WordsEnd(s, p, words) ==
    LET w == Head(words)
        e == p + Len(w) - 1
    IN  IF e > Len(s) \/ Lower(SubSeq(s, p, e)) # w THEN 0
        ELSE IF Tail(words) = <<>> THEN e
        ELSE LET j == WsRunEnd(s, e + 1)
             IN  IF j = e THEN 0 ELSE WordsEnd(s, j + 1, Tail(words))

\* The markers of the two patterns, in the order of the source.
dba_patterns ==
    << [slashed |-> TRUE, parts |-> <<"d", "b", "a">>],
       [slashed |-> FALSE,
        parts |-> << <<"d", "o", "i", "n", "g">>,
                     <<"b", "u", "s", "i", "n", "e", "s", "s">>,
                     <<"a", "s">> >>] >>

MarkerEnd(s, p, pattern) ==
    IF pattern.slashed THEN SlashedEnd(s, p, pattern.parts)
    ELSE WordsEnd(s, p, pattern.parts)

\* The lengths of the prefixes that group 1 can take in a match.
DbaStarts(s, pattern) ==
    {i \in 1..Len(s) :
        LET j == WsRunEnd(s, i + 1)
            e == IF j > i THEN MarkerEnd(s, j + 1, pattern) ELSE 0
        IN  e > 0 /\ e + 2 <= Len(s) /\ IsSpace(s[e + 1])}

\* match.group(1).strip(), match.group(2).strip() of the match of one pattern.
DbaGroups(s, pattern) ==
    LET starts == DbaStarts(s, pattern)
        i == CHOOSE a \in starts : \A b \in starts : a <= b
        e == MarkerEnd(s, WsRunEnd(s, i + 1) + 1, pattern)
        k == WsRunEnd(s, e + 1)
        group2 == IF k < Len(s) THEN From(s, k + 1) ELSE From(s, Len(s))
    IN  <<Strip(SubSeq(s, 1, i)), JStr(Strip(group2))>>

RECURSIVE DbaLoop(_, _)
\* for pattern in dba_patterns: the first pattern that matches decides.
DbaLoop(name, k) ==
    IF k > Len(dba_patterns) THEN <<name, JNull>>
    ELSE IF DbaStarts(name, dba_patterns[k]) # {} THEN DbaGroups(name, dba_patterns[k])
    ELSE DbaLoop(name, k + 1)

extract_dba_name(name) == DbaLoop(name, 1)

(***************************************************************************)
(* The inputs of the normalizer: a base with trailing punctuation, or a    *)
(* base (possibly empty), a separator, a spelling of a suffix and trailing *)
(* punctuation.                                                            *)
(***************************************************************************)

MaxTrail == 2

NormBases == { <<"A">>, <<"Z", "e">>, <<"T", "e", "l">> }

NormSeps == { <<>>, <<" ">>, <<",">>, <<",", " ">>, <<" ", " ">> }

NormSuffixes ==
    { <<"I", "n", "c">>, <<"I", "N", "C", ".">>, <<"i", "n", "c">>,
      <<"L", "L", "C">>, <<"L", ".", "L", ".", "C", ".">>, <<"l", "l", "c", ".">>,
      <<"C", "o", "r", "p", ".">>, <<"L", "L", "P">>, <<"L", ".", "P", ".">>,
      <<"L", "t", "d">>, <<"C", "o">>, <<"C", "o", ".">>,
      <<"P", "L", "L", "C">>, <<"P", ".", "L", ".", "L", ".", "C", ".">> }

RECURSIVE SeqsUpTo(_, _)
\* All sequences over S of length at most n.
SeqsUpTo(S, n) ==
    IF n = 0 THEN {<<>>}
    ELSE LET shorter == SeqsUpTo(S, n - 1)
         IN  shorter \cup {<<c>> \o t : c \in S, t \in {u \in shorter : Len(u) = n - 1}}

NormTrails == SeqsUpTo({".", ","}, MaxTrail)

NormNames ==
    {b \o t : b \in NormBases, t \in NormTrails}
    \cup {b \o p \o x \o t : b \in NormBases \cup {<<>>}, p \in NormSeps,
                               x \in NormSuffixes, t \in NormTrails}

(***************************************************************************)
(* Each component of the pipeline is a batch program of its own, run from  *)
(* its own main(); a specification runs one of them and leaves the state   *)
(* of the others idle.                                                     *)
(***************************************************************************)

n_idle == n_pc = "idle" /\ n_name = <<>> /\ n_once = <<>> /\ n_twice = <<>>

d_idle ==
    /\ d_pc = "idle" /\ d_queries = <<>> /\ d_q = 0 /\ d_i = 0
    /\ all_filings = <<>> /\ count_before = 0 /\ query_stats = <<>>
    /\ filings_raw = <<>> /\ meta = <<>>

f_idle == f_pc = "idle" /\ f_filing = <<>> /\ f_result = "none"

b_idle == b_pc = "idle" /\ b_name = <<>> /\ b_result = <<>>

z_idle == z_pc = "idle" /\ z_filename = <<>> /\ z_download = <<>> /\ z_enrich = <<>>

r_idle ==
    /\ r_pc = "idle" /\ r_doc = <<>> /\ r_saved = <<>> /\ r_output = <<>>
    /\ r_status = "none" /\ r_expected = <<>>

w_idle ==
    /\ w_pc = "idle" /\ w_docs = <<>> /\ w_tasks = EmptyBag /\ w_sem = 0
    /\ w_results = EmptyBag /\ w_stats = <<>>

s_idle ==
    /\ s_pc = "idle" /\ s_input = <<>> /\ s_pos = 0 /\ s_k = 0
    /\ company_filings = <<>> /\ name_variations = <<>> /\ key_order = <<>>
    /\ total_filings = 0 /\ excluded_govt = 0 /\ excluded_no_filer = 0
    /\ companies = <<>> /\ stats = <<>>

(***************************************************************************)
(* The normalizer applied to a name, and again to its own result (the      *)
(* record builder's keys are normalized names).                            *)
(***************************************************************************)

NormInit ==
    /\ n_pc = "start" /\ n_name \in NormNames /\ n_once = <<>> /\ n_twice = <<>>
    /\ d_idle /\ f_idle /\ s_idle /\ b_idle /\ z_idle /\ r_idle /\ w_idle

NormalizeOnce ==
    /\ n_pc = "start"
    /\ n_once' = normalize_company_name(n_name)
    /\ n_pc' = "once"
    /\ UNCHANGED <<n_name, n_twice, d_vars, f_vars, s_vars, b_vars,
                   z_vars, r_vars, w_vars>>

NormalizeTwice ==
    /\ n_pc = "once"
    /\ n_twice' = normalize_company_name(n_once)
    /\ n_pc' = "twice"
    /\ UNCHANGED <<n_name, n_once, d_vars, f_vars, s_vars, b_vars,
                   z_vars, r_vars, w_vars>>

NormNext == NormalizeOnce \/ NormalizeTwice

SpecNormalize == NormInit /\ [][NormNext]_vars

\* C1: normalize_company_name is idempotent: normalizing the result of a
\* normalization gives that result back, for every input name, names with
\* stacked punctuation after the suffix included.
C1_Idempotent == n_pc = "twice" => n_twice = n_once

(***************************************************************************)
(* extract_dba_name applied to a name: one, two or three parts joined by   *)
(* spellings of the markers and by texts that are no marker.               *)
(***************************************************************************)

\* " d/b/a "
DbaPlain ==
    <<" ", "d", "/", "b", "/", "a", " ">>

\* " D/B/A "
DbaUpper ==
    <<" ", "D", "/", "B", "/", "A", " ">>

\* " dba "
DbaNoSlash ==
    <<" ", "d", "b", "a", " ">>

\* "  d/b/a" and a tab
DbaSpaced ==
    <<" ", " ", "d", "/", "b", "/", "a", "\t">>

\* " doing business as "
DbaWords ==
    <<" ", "d", "o", "i", "n", "g", " ", "b", "u", "s", "i", "n", "e", "s",
      "s", " ", "a", "s", " ">>

\* " Doing  Business", a tab, "AS "
DbaWordsMixed ==
    <<" ", "D", "o", "i", "n", "g", " ", " ", "B", "u", "s", "i", "n", "e",
      "s", "s", "\t", "A", "S", " ">>

\* "d/b/a ": no whitespace before the marker
DbaGlued ==
    <<"d", "/", "b", "/", "a", " ">>

\* " d/b ": not a marker
DbaHalf ==
    <<" ", "d", "/", "b", " ">>

\* "Ab Co"
DbaFirm ==
    <<"A", "b", " ", "C", "o">>

\* "Zed Inc"
DbaBrand ==
    <<"Z", "e", "d", " ", "I", "n", "c">>

DbaMarkers == {DbaPlain, DbaUpper, DbaNoSlash, DbaSpaced, DbaWords, DbaWordsMixed}

DbaJoints == DbaMarkers \cup {DbaGlued, DbaHalf}

DbaNames ==
    {DbaFirm, <<"A">>, <<>>}
    \cup {x \o j \o y : x \in {<<"A">>, DbaFirm}, j \in DbaJoints, y \in {<<"B">>, DbaBrand, <<>>}}
    \cup {<<"A">> \o j \o <<"B">> \o k \o <<"C">> : j \in DbaJoints, k \in DbaJoints}

DbaInit ==
    /\ b_pc = "start" /\ b_name \in DbaNames /\ b_result = <<>>
    /\ n_idle /\ d_idle /\ f_idle /\ s_idle /\ z_idle /\ r_idle /\ w_idle

\* base_name, dba_name = extract_dba_name(primary_name)
ExtractDba ==
    /\ b_pc = "start"
    /\ b_result' = extract_dba_name(b_name)
    /\ b_pc' = "done"
    /\ UNCHANGED <<b_name, n_vars, d_vars, f_vars, s_vars,
                   z_vars, r_vars, w_vars>>

DbaNext == ExtractDba

SpecDba == DbaInit /\ [][DbaNext]_vars

\* The spellings of the markers, lowercased and with one space between words.
MarkerSpellings ==
    { <<"d", "/", "b", "/", "a">>, <<"d", "b", "/", "a">>, <<"d", "/", "b", "a">>,
      <<"d", "b", "a">>,
      <<"d", "o", "i", "n", "g", " ", "b", "u", "s", "i", "n", "e", "s", "s", " ",
        "a", "s">> }

\* A text that spells 'doing business as'.
SpellsWords(t) ==
    CollapseSpace(Lower(t))
        = <<"d", "o", "i", "n", "g", " ", "b", "u", "s", "i", "n", "e", "s", "s", " ",
            "a", "s">>

\* The places <<a, b>> of a name where a marker stands between an X and a Y:
\* name[a..b] spells a marker, whitespace and something before it, and
\* whitespace and something after it.
MarkerPlaces(name) ==
    {pl \in (3..Len(name)) \X (3..Len(name)) :
        /\ pl[1] <= pl[2]
        /\ pl[2] + 2 <= Len(name)
        /\ IsSpace(name[pl[1] - 1]) /\ IsSpace(name[pl[2] + 1])
        /\ ~IsSpace(name[pl[1]]) /\ ~IsSpace(name[pl[2]])
        /\ CollapseSpace(Lower(SubSeq(name, pl[1], pl[2]))) \in MarkerSpellings}

\* C15: extract_dba_name(name) returns (X, Y), both trimmed, when the name
\* has the form 'X d/b/a Y' or 'X doing business as Y' in any letter case,
\* split at the first such marker of the name; when the name has no marker
\* it returns (name, None), the name as it is.
C15_SplitsAtFirstMarker ==
    b_pc = "done" =>
        \A places \in {MarkerPlaces(b_name)} :
            IF places = {} THEN b_result = <<b_name, JNull>>
            ELSE \E first \in places :
                    /\ \A pl \in places : first[1] <= pl[1]
                    /\ b_result = <<Strip(SubSeq(b_name, 1, first[1] - 1)),
                                    JStr(Strip(From(b_name, first[2] + 1)))>>

\* The part of C15 that the code keeps: the names in which no
\* 'doing business as' comes before a 'd/b/a'.
C15_ExceptWordsBeforeSlashed ==
    b_pc = "done" =>
        \A places \in {MarkerPlaces(b_name)} :
            (~\E pl, pm \in places :
                  /\ pl[1] < pm[1]
                  /\ SpellsWords(SubSeq(b_name, pl[1], pl[2]))
                  /\ ~SpellsWords(SubSeq(b_name, pm[1], pm[2]))) =>
                IF places = {} THEN b_result = <<b_name, JNull>>
                ELSE \E first \in places :
                        /\ \A pl \in places : first[1] <= pl[1]
                        /\ b_result = <<Strip(SubSeq(b_name, 1, first[1] - 1)),
                                        JStr(Strip(From(b_name, first[2] + 1)))>>

(***************************************************************************)
(* extract.py: extract_filings.  The two result lists are what             *)
(* fetch_all_filings returns for the two queries; all_filings is the dict  *)
(* of the source, kept as the sequence of its (key, value) items in        *)
(* insertion order, the order in which dict.values() yields them.          *)
(***************************************************************************)

MaxFetched == 2

NumQueries == 2

\* A fetched filing: its id_submission and the rest of its content.
DedupIds == {JAbsent, JNull, JStr(<<>>), JStr(<<"1">>), JStr(<<"2">>)}

DedupFilings ==
    {[id_submission |-> i, body |-> b] : i \in DedupIds, b \in {"x"}}
    \cup {[id_submission |-> i, body |-> "y"] : i \in {JStr(<<"1">>), JStr(<<"2">>)}}

DedupKeys(all) == {all[k].key : k \in 1..Len(all)}

\* The body of the loop over one fetched filing.
DedupStore_LastWins(all, f) ==
    LET submission_id == f.id_submission
    IN  IF ~Truthy(submission_id) THEN all
        ELSE IF submission_id.v \in DedupKeys(all)
        THEN [k \in 1..Len(all) |->
                 IF all[k].key = submission_id.v
                 THEN [key |-> submission_id.v, value |-> f] ELSE all[k]]
        ELSE Append(all, [key |-> submission_id.v, value |-> f])

DedupStore(all, f) ==
    LET submission_id == f.id_submission
    IN  IF Truthy(submission_id) /\ submission_id.v \notin DedupKeys(all)
        THEN Append(all, [key |-> submission_id.v, value |-> f])
        ELSE all

DedupInit ==
    /\ d_pc = "fetch"
    /\ d_queries \in [1..NumQueries -> SeqsUpTo(DedupFilings, MaxFetched)]
    /\ d_q = 1 /\ d_i = 0
    /\ all_filings = <<>> /\ count_before = 0 /\ query_stats = <<>>
    /\ filings_raw = <<>> /\ meta = <<>>
    /\ n_idle /\ f_idle /\ s_idle /\ b_idle /\ z_idle /\ r_idle /\ w_idle

\* for f in filings: one fetched filing of the current query.
DedupFiling ==
    /\ d_pc = "fetch"
    /\ d_i < Len(d_queries[d_q])
    /\ d_i' = d_i + 1
    /\ all_filings' = DedupStore(all_filings, d_queries[d_q][d_i + 1])
    /\ UNCHANGED <<d_pc, d_queries, d_q, count_before, query_stats, filings_raw, meta,
                   n_vars, f_vars, s_vars, b_vars,
                   z_vars, r_vars, w_vars>>

\* The end of one query: its statistics, then the next query or the output.
EndQuery ==
    /\ d_pc = "fetch"
    /\ d_i = Len(d_queries[d_q])
    /\ query_stats' = Append(query_stats,
                         [fetched |-> Len(d_queries[d_q]),
                          new_unique |-> Len(all_filings) - count_before])
    /\ count_before' = Len(all_filings)
    /\ d_i' = 0
    /\ IF d_q < NumQueries
       THEN d_q' = d_q + 1 /\ d_pc' = "fetch"
       ELSE d_q' = d_q /\ d_pc' = "save"
    /\ UNCHANGED <<d_queries, all_filings, filings_raw, meta, n_vars, f_vars, s_vars, b_vars,
                   z_vars, r_vars, w_vars>>

\* filings_raw.jsonl and the metadata (its extraction_time and file names
\* are left out: they say nothing about the filings).
SaveFilings ==
    /\ d_pc = "save"
    /\ filings_raw' = [k \in 1..Len(all_filings) |-> all_filings[k].value]
    /\ meta' = [queries |-> query_stats, total_unique_filings |-> Len(all_filings)]
    /\ d_pc' = "done"
    /\ UNCHANGED <<d_queries, d_q, d_i, all_filings, count_before, query_stats,
                   n_vars, f_vars, s_vars, b_vars,
                   z_vars, r_vars, w_vars>>

DedupNext == DedupFiling \/ EndQuery \/ SaveFilings

SpecDedup == DedupInit /\ [][DedupNext]_vars

\* The fetched filings in the order the deduplicator sees them: by query,
\* then by position within the query.
RECURSIVE FetchedUpTo(_)
FetchedUpTo(q) == IF q = 0 THEN <<>> ELSE FetchedUpTo(q - 1) \o d_queries[q]

Fetched == FetchedUpTo(NumQueries)

\* The submission ids present in the input (a missing id is no id).
FetchedIds == {Fetched[k].id_submission.v : k \in {j \in 1..Len(Fetched) : Truthy(Fetched[j].id_submission)}}

FirstWith(id) ==
    Fetched[CHOOSE k \in 1..Len(Fetched) :
               /\ Truthy(Fetched[k].id_submission) /\ Fetched[k].id_submission.v = id
               /\ \A j \in 1..(k - 1) :
                      ~(Truthy(Fetched[j].id_submission) /\ Fetched[j].id_submission.v = id)]

\* C7: after deduplication every submission id of the input is stored once,
\* with the first filing seen for it (by query, then by position), whatever
\* the content of the later filings with that id; the retained filings are
\* as many as the distinct submission ids.
C7_FirstSeenWins ==
    d_pc = "done" =>
        /\ DedupKeys(all_filings) = FetchedIds
        /\ \A k \in 1..Len(all_filings) : all_filings[k].value = FirstWith(all_filings[k].key)
        /\ Len(all_filings) = Cardinality(FetchedIds)
        /\ Len(filings_raw) = Cardinality(FetchedIds)
        /\ meta.total_unique_filings = Cardinality(FetchedIds)

\* Two filings with one id and different content were fetched, and the run ended.
C7_Witness ==
    /\ d_pc = "done"
    /\ \E j, k \in 1..Len(Fetched) :
          /\ j < k
          /\ Truthy(Fetched[j].id_submission)
          /\ Fetched[j].id_submission = Fetched[k].id_submission
          /\ Fetched[j].body # Fetched[k].body

NumMissingId == Cardinality({k \in 1..Len(Fetched) : ~Truthy(Fetched[k].id_submission)})

\* No filing with a missing id is stored, under any key.
NoMissingIdStored ==
    \A k \in 1..Len(all_filings) :
        /\ Truthy(all_filings[k].value.id_submission)
        /\ all_filings[k].key = all_filings[k].value.id_submission.v

\* C8: a filing whose submission id is missing (absent, null or empty) is
\* never stored in the dedup map, and the number of such filings is reported
\* in the metadata as a count of its own, apart from the per-query counts
\* from which only duplicates and missing ids together can be derived.
C8_MissingIdCounted ==
    (d_pc = "done" /\ NumMissingId > 0) =>
        /\ NoMissingIdStored
        /\ \E field \in DOMAIN meta \ {"queries", "total_unique_filings"} :
              meta[field] = NumMissingId

(***************************************************************************)
(* filter.py: is_ipes_filing.  A filing is the JSON object of one line of  *)
(* filings_raw.jsonl, of which the classifier reads the proceedings and    *)
(* the documents.  The result is "True", "False", or the exception the     *)
(* call raises.                                                            *)
(***************************************************************************)

\* "interconnected voip numbering"
TriggerInterconnected ==
    <<"i", "n", "t", "e", "r", "c", "o", "n", "n", "e", "c", "t", "e", "d",
      " ", "v", "o", "i", "p", " ", "n", "u", "m", "b", "e", "r", "i", "n",
      "g">>

\* "voip numbering authorization application"
TriggerApplication ==
    <<"v", "o", "i", "p", " ", "n", "u", "m", "b", "e", "r", "i", "n", "g",
      " ", "a", "u", "t", "h", "o", "r", "i", "z", "a", "t", "i", "o", "n",
      " ", "a", "p", "p", "l", "i", "c", "a", "t", "i", "o", "n">>

\* "authorization to obtain numbering resources"
TriggerResources ==
    <<"a", "u", "t", "h", "o", "r", "i", "z", "a", "t", "i", "o", "n", " ",
      "t", "o", " ", "o", "b", "t", "a", "i", "n", " ", "n", "u", "m", "b",
      "e", "r", "i", "n", "g", " ", "r", "e", "s", "o", "u", "r", "c", "e",
      "s">>

\* "voip numbering"
FilenameMarker ==
    <<"v", "o", "i", "p", " ", "n", "u", "m", "b", "e", "r", "i", "n", "g">>

\* The three tests of one proceeding description.
DescMatches_NoLower(description) ==
    LET desc == IF Truthy(description) THEN description.v ELSE <<>>
    IN  \/ Contains(desc, TriggerInterconnected)
        \/ Contains(desc, TriggerApplication)
        \/ Contains(desc, TriggerResources)

DescMatches(description) ==
    LET desc == Lower(IF Truthy(description) THEN description.v ELSE <<>>)
    IN  \/ Contains(desc, TriggerInterconnected)
        \/ Contains(desc, TriggerApplication)
        \/ Contains(desc, TriggerResources)

\* The test of one document filename.
FilenameMatches(filename) ==
    Contains(Lower(IF Truthy(filename) THEN filename.v ELSE <<>>), FilenameMarker)

RECURSIVE ProceedingsLoop(_, _)
\* for proc in proceedings: TRUE when some iteration returns True.
ProceedingsLoop(proceedings, i) ==
    IF i > Len(proceedings) THEN FALSE
    ELSE IF DescMatches(proceedings[i].description) THEN TRUE
    ELSE ProceedingsLoop(proceedings, i + 1)

RECURSIVE DocumentsLoop(_, _)
\* for doc in documents: TRUE when some iteration returns True.
DocumentsLoop(documents, i) ==
    IF i > Len(documents) THEN FALSE
    ELSE IF FilenameMatches(documents[i].filename) THEN TRUE
    ELSE DocumentsLoop(documents, i + 1)

\* filing.get(key, []): the default stands for an absent key only.
GetList(j) == IF j.t = "absent" THEN JList(<<>>) ELSE j

is_ipes_filing(filing) ==
    LET proceedings == GetList(filing.proceedings)
        documents == GetList(filing.documents)
    IN  IF proceedings.t # "list" THEN "TypeError"
        ELSE IF ProceedingsLoop(proceedings.v, 1) THEN "True"
        ELSE IF documents.t # "list" THEN "TypeError"
        ELSE IF DocumentsLoop(documents.v, 1) THEN "True"
        ELSE "False"

(***************************************************************************)
(* The filings given to the classifier.                                    *)
(***************************************************************************)

MaxItems == 2

\* "Interconnected VoIP Numbering request"
DescInterconnected ==
    <<"I", "n", "t", "e", "r", "c", "o", "n", "n", "e", "c", "t", "e", "d",
      " ", "V", "o", "I", "P", " ", "N", "u", "m", "b", "e", "r", "i", "n",
      "g", " ", "r", "e", "q", "u", "e", "s", "t">>

\* "VOIP NUMBERING AUTHORIZATION APPLICATION"
DescApplication ==
    <<"V", "O", "I", "P", " ", "N", "U", "M", "B", "E", "R", "I", "N", "G",
      " ", "A", "U", "T", "H", "O", "R", "I", "Z", "A", "T", "I", "O", "N",
      " ", "A", "P", "P", "L", "I", "C", "A", "T", "I", "O", "N">>

\* "Authorization to Obtain Numbering Resources"
DescResources ==
    <<"A", "u", "t", "h", "o", "r", "i", "z", "a", "t", "i", "o", "n", " ",
      "t", "o", " ", "O", "b", "t", "a", "i", "n", " ", "N", "u", "m", "b",
      "e", "r", "i", "n", "g", " ", "R", "e", "s", "o", "u", "r", "c", "e",
      "s">>

\* "VoIP Numbering Authorization": the filename marker, but no description trigger
DescNearMiss ==
    <<"V", "o", "I", "P", " ", "N", "u", "m", "b", "e", "r", "i", "n", "g",
      " ", "A", "u", "t", "h", "o", "r", "i", "z", "a", "t", "i", "o", "n">>

\* "Rural Call Completion"
DescUnrelated ==
    <<"R", "u", "r", "a", "l", " ", "C", "a", "l", "l", " ", "C", "o", "m",
      "p", "l", "e", "t", "i", "o", "n">>

\* "ACME VoIP Numbering App.pdf"
FileMatching ==
    <<"A", "C", "M", "E", " ", "V", "o", "I", "P", " ", "N", "u", "m", "b",
      "e", "r", "i", "n", "g", " ", "A", "p", "p", ".", "p", "d", "f">>

\* "voip_numbering.pdf": an underscore where the marker has a space
FileNearMiss ==
    <<"v", "o", "i", "p", "_", "n", "u", "m", "b", "e", "r", "i", "n", "g",
      ".", "p", "d", "f">>

\* "Cover Letter.pdf"
FileUnrelated ==
    <<"C", "o", "v", "e", "r", " ", "L", "e", "t", "t", "e", "r", ".", "p",
      "d", "f">>

FilterDescriptions ==
    {JAbsent, JNull, JStr(<<>>), JStr(DescInterconnected), JStr(DescApplication),
     JStr(DescResources), JStr(DescNearMiss), JStr(DescUnrelated)}

FilterFilenames ==
    {JAbsent, JNull, JStr(FileMatching), JStr(FileNearMiss), JStr(FileUnrelated)}

FilterProceedings ==
    {JAbsent, JNull}
    \cup {JList(l) : l \in SeqsUpTo({[description |-> d] : d \in FilterDescriptions}, MaxItems)}

FilterDocuments ==
    {JAbsent, JNull}
    \cup {JList(l) : l \in SeqsUpTo({[filename |-> n] : n \in FilterFilenames}, MaxItems)}

FilterInit ==
    /\ f_pc = "start"
    /\ f_filing \in [proceedings : FilterProceedings, documents : FilterDocuments]
    /\ f_result = "none"
    /\ n_idle /\ d_idle /\ s_idle /\ b_idle /\ z_idle /\ r_idle /\ w_idle

\* if is_ipes_filing(filing): the call made for one line of the input.
Classify ==
    /\ f_pc = "start"
    /\ f_result' = is_ipes_filing(f_filing)
    /\ f_pc' = "done"
    /\ UNCHANGED <<f_filing, n_vars, d_vars, s_vars, b_vars,
                   z_vars, r_vars, w_vars>>

FilterNext == Classify

SpecFilter == FilterInit /\ [][FilterNext]_vars

\* Two characters that are equal or the two cases of one letter.
SameLetter(a, b) ==
    \/ a = b
    \/ /\ CharCode[a] >= CharCode["A"] /\ CharCode[a] <= CharCode["Z"]
       /\ CharCode[b] = CharCode[a] + 32
    \/ /\ CharCode[b] >= CharCode["A"] /\ CharCode[b] <= CharCode["Z"]
       /\ CharCode[a] = CharCode[b] + 32

\* hay contains needle, letter case ignored.
ContainsIgnoringCase(hay, needle) ==
    \E i \in 1..(Len(hay) - Len(needle) + 1) :
        \A k \in 1..Len(needle) : SameLetter(hay[i + k - 1], needle[k])

\* The strings among the values of one key over a list of objects.
StringsOf(j, key) ==
    IF j.t # "list" THEN {}
    ELSE {j.v[k][key].v : k \in {i \in 1..Len(j.v) : j.v[i][key].t = "str"}}

\* The relevance rule: a trigger phrase in some proceeding description, or
\* the marker in some document filename.
Relevant(filing) ==
    \/ \E desc \in StringsOf(filing.proceedings, "description") :
          \E trigger \in {TriggerInterconnected, TriggerApplication, TriggerResources} :
              ContainsIgnoringCase(desc, trigger)
    \/ \E name \in StringsOf(filing.documents, "filename") :
          ContainsIgnoringCase(name, FilenameMarker)

\* The filings whose proceedings and documents are lists or are not given.
ListsOrAbsent(filing) ==
    filing.proceedings.t \in {"list", "absent"} /\ filing.documents.t \in {"list", "absent"}

\* C9: is_ipes_filing returns true exactly when some proceeding description
\* contains one of the three trigger phrases or some document filename
\* contains "voip numbering", letter case ignored, and false when nothing
\* matches across all proceedings and documents.
C9_RelevanceRule ==
    (f_pc = "done" /\ ListsOrAbsent(f_filing)) =>
        f_result = IF Relevant(f_filing) THEN "True" ELSE "False"

\* A filing matched only by a trigger spelled in another letter case.
C9_Witness ==
    /\ f_pc = "done"
    /\ f_result = "True"
    /\ f_filing.proceedings = JList(<<[description |-> JStr(DescApplication)]>>)
    /\ f_filing.documents = JList(<<[filename |-> JStr(FileNearMiss)]>>)

\* C10: is_ipes_filing is total: for every filing, those whose proceedings
\* or documents are absent or null and those whose description or filename
\* is absent or null included, it returns a boolean and raises nothing.
C10_Total == f_pc = "done" => f_result \in {"True", "False"}

\* The part of C10 that the code keeps: a description or filename that is
\* absent or null is read as the empty string.
C10_NullFieldsAreEmpty ==
    (f_pc = "done" /\ ListsOrAbsent(f_filing)) => f_result \in {"True", "False"}

(***************************************************************************)
(* structure.py: structure_companies.  s_input is the content of           *)
(* filings_filtered.jsonl, one filing a line.  Of each filing the model    *)
(* keeps the keys that decide its group, its dates, its history entry, its *)
(* proceedings (their names) and its documents (their filenames).          *)
(* company_filings and name_variations are the two defaultdicts, as        *)
(* functions on the keys inserted so far; key_order is the insertion order *)
(* of company_filings, in which the records are built.                     *)
(***************************************************************************)

govt_keywords ==
    { <<"w", "i", "r", "e", "l", "i", "n", "e", " ", "c", "o", "m",
        "p", "e", "t", "i", "t", "i", "o", "n", " ", "b", "u", "r",
        "e", "a", "u">>,
      <<"f", "e", "d", "e", "r", "a", "l", " ", "c", "o", "m", "m",
        "u", "n", "i", "c", "a", "t", "i", "o", "n", "s", " ", "c",
        "o", "m", "m", "i", "s", "s", "i", "o", "n">>,
      <<"f", "c", "c">>,
      <<"u", ".", "s", ".", " ", "d", "e", "p", "a", "r", "t", "m",
        "e", "n", "t">>,
      <<"d", "e", "p", "a", "r", "t", "m", "e", "n", "t", " ", "o",
        "f", " ", "j", "u", "s", "t", "i", "c", "e">> }

is_government_entity_CaseSensitive(name) ==
    \E kw \in govt_keywords : Contains(name, kw)

is_government_entity(name) ==
    LET name_lower == Lower(name)
    IN  \E kw \in govt_keywords : Contains(name_lower, kw)

\* A stable list.sort() on a str key, keys[i] being the key of items[i]:
\* by key, and by position among equal keys.
StableSortByStr(items, keys) ==
    LET n == Len(items)
        rank(i) ==
            1 + Cardinality({j \in 1..n :
                    \/ StrLess(keys[j], keys[i])
                    \/ (keys[j] = keys[i] /\ j < i)})
    IN  [p \in 1..n |-> items[CHOOSE i \in 1..n : rank(i) = p]]

\* The elements of a set in ascending order.
SortedStrs(S) ==
    [p \in 1..Cardinality(S) |->
        CHOOSE x \in S : Cardinality({y \in S : StrLess(y, x)}) = p - 1]

\* list(s), or the iteration over a set s: its elements once each, in an
\* order that the language leaves open (it follows the hashes of the
\* strings, which differ from run to run).
ListingsOf(S) ==
    {listing \in [1..Cardinality(S) -> S] :
        \A i, j \in 1..Cardinality(S) : listing[i] = listing[j] => i = j}

\* sorted(iterable of str)
Sorted_AsListed(listing) == listing

Sorted(listing) == StableSortByStr(listing, listing)

\* The order of variations.sort(key=lambda x: (-len(x), x)).
VariationBefore_ShortestFirst(a, b) ==
    Len(a) < Len(b) \/ (Len(a) = Len(b) /\ StrLess(a, b))

VariationBefore(a, b) ==
    Len(a) > Len(b) \/ (Len(a) = Len(b) /\ StrLess(a, b))

\* variations.sort(key=lambda x: (-len(x), x)) of the list variations: a
\* stable sort.
SortedVariations(variations) ==
    LET n == Len(variations)
        rank(i) ==
            1 + Cardinality({j \in 1..n :
                    \/ VariationBefore(variations[j], variations[i])
                    \/ (/\ ~VariationBefore(variations[i], variations[j])
                        /\ j < i)})
    IN  [p \in 1..n |-> variations[CHOOSE i \in 1..n : rank(i) = p]]

\* f.get('submissiontype', {}).get('description') == 'APPLICATION'
IsApplication_Any(f) == TRUE

IsApplication(f) == f.submissiontype = "APPLICATION"

\* The length of the date prefix kept by [:10].
DateLen == 10

\* applications[0].get('date_received', '')[:10] of the sorted applications.
FirstFilingDate_InputOrder(filings) ==
    Prefix(SelectSeq(filings, IsApplication)[1].date_received, DateLen)

FirstFilingDate(filings) ==
    LET unsorted == SelectSeq(filings, IsApplication)
        applications ==
            StableSortByStr(unsorted, [i \in 1..Len(unsorted) |-> unsorted[i].date_received])
    IN  Prefix(applications[1].date_received, DateLen)

\* filings[-1].get('date_received', '')[:10] if filings else None
LatestFilingDate(filings) == Prefix(filings[Len(filings)].date_received, DateLen)

\* variations[0] if variations else normalized_name
PrimaryName_KeyOnly(variations, normalized_name) == normalized_name

PrimaryName(variations, normalized_name) ==
    IF variations # <<>> THEN SortedVariations(variations)[1] ELSE normalized_name

\* The filing summaries, sorted by their (truncated) date.
FilingSummaries_ByFullDate(filings) ==
    LET sorted ==
            StableSortByStr(filings, [i \in 1..Len(filings) |-> filings[i].date_received])
    IN  [i \in 1..Len(sorted) |->
            [id |-> sorted[i].id_submission,
             type |-> sorted[i].submissiontype,
             date |-> Prefix(sorted[i].date_received, DateLen),
             status |-> sorted[i].filingstatus]]

FilingSummaries(filings) ==
    LET filing_summaries ==
            [i \in 1..Len(filings) |->
                [id |-> filings[i].id_submission,
                 type |-> filings[i].submissiontype,
                 date |-> Prefix(filings[i].date_received, DateLen),
                 status |-> filings[i].filingstatus]]
    IN  StableSortByStr(filing_summaries,
                        [i \in 1..Len(filings) |-> filing_summaries[i].date])

\* "INBOX-52.15" and "INBOX-1.41"
docket_placeholders ==
    { <<"I", "N", "B", "O", "X", "-", "5", "2", ".", "1", "5">>,
      <<"I", "N", "B", "O", "X", "-", "1", ".", "4", "1">> }

\* if docket and docket not in ['INBOX-52.15', 'INBOX-1.41']
DocketKept_AnyName(docket) == Truthy(docket)

DocketKept(docket) == Truthy(docket) /\ docket.v \notin docket_placeholders

\* The set dockets after the loops over the filings and their proceedings.
Dockets(filings) ==
    UNION {{p.name.v : p \in {q \in {GetList(filings[i].proceedings).v[k] :
                                        k \in 1..Len(GetList(filings[i].proceedings).v)} :
                                DocketKept(q.name)}} :
           i \in 1..Len(filings)}

RECURSIVE Documents(_, _)
\* The list documents after the loops over the filings and their documents,
\* from the filing at position i on.
Documents(filings, i) ==
    IF i > Len(filings) THEN <<>>
    ELSE LET f == filings[i]
             docs == GetList(f.documents).v
         IN  [k \in 1..Len(docs) |->
                 [filename |-> IF docs[k].filename.t = "absent" THEN JStr(<<>>)
                               ELSE docs[k].filename,
                  filing_id |-> f.id_submission,
                  filing_type |-> f.submissiontype,
                  filing_date |-> Prefix(f.date_received, DateLen)]]
             \o Documents(filings, i + 1)

\* Whether the loops over f.get('proceedings', []) and f.get('documents', [])
\* run: a null in the place of a list is not iterable.
Iterable(filings) ==
    \A i \in 1..Len(filings) :
        /\ GetList(filings[i].proceedings).t = "list"
        /\ GetList(filings[i].documents).t = "list"

\* The set contacts (of the authors) or attorneys (of the lawfirms) after
\* the loops over the filings and the objects of that list: the stripped
\* names that are not empty.
StrippedNames(filings, field) ==
    UNION {{Strip(o.name.v) :
                o \in {q \in {GetList(filings[i][field]).v[k] :
                                k \in 1..Len(GetList(filings[i][field]).v)} :
                          q.name.t = "str" /\ Strip(q.name.v) # <<>>}} :
           i \in 1..Len(filings)}

\* The set proceeding_types after the loops over the filings and their
\* proceedings.
ProceedingTypes(filings) ==
    UNION {{p.description.v :
                p \in {q \in {GetList(filings[i].proceedings).v[k] :
                                k \in 1..Len(GetList(filings[i].proceedings).v)} :
                          Truthy(q.description)}} :
           i \in 1..Len(filings)}

RECURSIVE NamesRaise(_, _, _)
\* The exception of the loops over the authors or the lawfirms, from the
\* filing at position i on: a null in the place of the list is not iterable
\* (TypeError), a null name has no strip() (AttributeError).
NamesRaise(filings, field, i) ==
    IF i > Len(filings) THEN "none"
    ELSE LET list == GetList(filings[i][field])
         IN  IF list.t # "list" THEN "TypeError"
             ELSE IF \E k \in 1..Len(list.v) : list.v[k].name.t = "null"
             THEN "AttributeError"
             ELSE NamesRaise(filings, field, i + 1)

\* The first exception of the loops that build one record, or "none".
BuildRaises(filings) ==
    IF ~Iterable(filings) THEN "TypeError"
    ELSE IF NamesRaise(filings, "authors", 1) # "none"
    THEN NamesRaise(filings, "authors", 1)
    ELSE NamesRaise(filings, "lawfirms", 1)

\* The company record of one group with an application; variations,
\* dockets, contacts, attorneys and proceeding_types are the sets of the
\* group, each as the list that iterating over it gives.
CompanyRecord(normalized_name, filings, variations, dockets, contacts, attorneys, proceeding_types) ==
    [company_name |-> PrimaryName(variations, normalized_name),
     company_name_normalized |-> normalized_name,
     dba_name |-> extract_dba_name(PrimaryName(variations, normalized_name))[2],
     name_variations |-> Sorted(SortedVariations(variations)),
     docket_numbers |-> Sorted(dockets),
     first_filing_date |-> FirstFilingDate(filings),
     latest_filing_date |-> LatestFilingDate(filings),
     application_count |-> Len(SelectSeq(filings, IsApplication)),
     total_filing_count |-> Len(filings),
     filings |-> FilingSummaries(filings),
     documents |-> Documents(filings, 1),
     contacts |-> Sorted(contacts),
     attorneys |-> Sorted(attorneys),
     proceeding_types |-> Sorted(proceeding_types)]

\* What the loop over the input does with one filing: "no_filer", "govt",
\* "raise" (None has no strip(): an AttributeError), or "group" with the
\* stripped filer name.
FilerOutcome(filing) ==
    LET filers == GetList(filing.filers)
    IN  IF filers.t # "list" \/ filers.v = <<>> THEN [kind |-> "no_filer", name |-> <<>>]
        ELSE LET name == filers.v[1].name
             IN  IF name.t = "null" THEN [kind |-> "raise", name |-> <<>>]
                 ELSE LET filer_name == Strip(IF name.t = "str" THEN name.v ELSE <<>>)
                      IN  IF filer_name = <<>> THEN [kind |-> "no_filer", name |-> <<>>]
                          ELSE IF is_government_entity(filer_name)
                          THEN [kind |-> "govt", name |-> <<>>]
                          ELSE [kind |-> "group", name |-> filer_name]

\* defaultdict: d[key] of a key not yet inserted is the empty default.
GetDefault_AlwaysDefault(d, key, default) == default

GetDefault(d, key, default) == IF key \in DOMAIN d THEN d[key] ELSE default

Put(d, key, value) == [k \in DOMAIN d \cup {key} |-> IF k = key THEN value ELSE d[k]]

\* for line in f: one filing of the input.  (The filing, what becomes of it
\* and its key are bound as values, so that each is computed once.)
ReadFiling ==
    /\ s_pc = "read"
    /\ s_pos < Len(s_input)
    /\ \E filing \in {s_input[s_pos + 1]} :
       \E outcome \in {FilerOutcome(filing)} :
       \E normalized \in {normalize_company_name(outcome.name)} :
           /\ s_pos' = s_pos + 1
           /\ total_filings' = total_filings + 1
           /\ excluded_no_filer' = excluded_no_filer + IF outcome.kind = "no_filer" THEN 1 ELSE 0
           /\ excluded_govt' = excluded_govt + IF outcome.kind = "govt" THEN 1 ELSE 0
           /\ s_pc' = IF outcome.kind = "raise" THEN "AttributeError" ELSE "read"
           /\ IF outcome.kind = "group"
              THEN /\ name_variations' =
                          Put(name_variations, normalized,
                              GetDefault(name_variations, normalized, {}) \cup {outcome.name})
                   /\ company_filings' =
                          Put(company_filings, normalized,
                              Append(GetDefault(company_filings, normalized, <<>>), filing))
                   /\ key_order' = IF normalized \in DOMAIN company_filings
                                   THEN key_order ELSE Append(key_order, normalized)
              ELSE UNCHANGED <<name_variations, company_filings, key_order>>
    /\ UNCHANGED <<s_input, s_k, companies, stats, n_vars, d_vars, f_vars, b_vars,
                   z_vars, r_vars, w_vars>>

\* The end of the input.
EndOfInput ==
    /\ s_pc = "read"
    /\ s_pos = Len(s_input)
    /\ s_pc' = "build"
    /\ UNCHANGED <<s_input, s_pos, s_k, company_filings, name_variations, key_order,
                   total_filings, excluded_govt, excluded_no_filer, companies, stats,
                   n_vars, d_vars, f_vars, b_vars,
                   z_vars, r_vars, w_vars>>

\* for normalized_name, filings in company_filings.items(): one group.
BuildCompany ==
    /\ s_pc = "build"
    /\ s_k < Len(key_order)
    /\ LET normalized_name == key_order[s_k + 1]
           filings == company_filings[normalized_name]
       IN  /\ s_k' = s_k + 1
           /\ IF SelectSeq(filings, IsApplication) = <<>>
              THEN UNCHANGED <<s_pc, companies>>
              ELSE IF BuildRaises(filings) # "none"
              THEN s_pc' = BuildRaises(filings) /\ UNCHANGED companies
              ELSE /\ \E variations \in ListingsOf(name_variations[normalized_name]) :
                      \E dockets \in ListingsOf(Dockets(filings)) :
                      \E contacts \in ListingsOf(StrippedNames(filings, "authors")) :
                      \E attorneys \in ListingsOf(StrippedNames(filings, "lawfirms")) :
                      \E proceeding_types \in ListingsOf(ProceedingTypes(filings)) :
                          companies' =
                              Append(companies,
                                     CompanyRecord(normalized_name, filings, variations,
                                                   dockets, contacts, attorneys,
                                                   proceeding_types))
                   /\ UNCHANGED s_pc
    /\ UNCHANGED <<s_input, s_pos, company_filings, name_variations, key_order,
                   total_filings, excluded_govt, excluded_no_filer, stats,
                   n_vars, d_vars, f_vars, b_vars,
                   z_vars, r_vars, w_vars>>

\* companies.sort(key=lambda x: x['company_name_normalized'])
SortCompanies_InsertionOrder(records) == records

SortCompanies(records) ==
    StableSortByStr(records,
                    [i \in 1..Len(records) |-> records[i].company_name_normalized])

RECURSIVE SumDocuments(_, _)
\* sum(len(c['documents']) for c in companies), from the record at position i on.
SumDocuments(records, i) ==
    IF i > Len(records) THEN 0
    ELSE Len(records[i].documents) + SumDocuments(records, i + 1)

\* companies.sort(...), the output file and the statistics (their two file
\* names are left out).
SaveCompanies ==
    /\ s_pc = "build"
    /\ s_k = Len(key_order)
    /\ \E sorted \in {SortCompanies(companies)} :
           /\ companies' = sorted
           /\ stats' =
                  [total_filings |-> total_filings,
                   excluded_govt |-> excluded_govt,
                   excluded_no_filer |-> excluded_no_filer,
                   unique_companies |-> Len(sorted),
                   companies_with_multiple_apps |->
                       Cardinality({i \in 1..Len(sorted) : sorted[i].application_count > 1}),
                   total_documents |-> SumDocuments(sorted, 1)]
    /\ s_pc' = "done"
    /\ UNCHANGED <<s_input, s_pos, s_k, company_filings, name_variations, key_order,
                   total_filings, excluded_govt, excluded_no_filer, n_vars, d_vars, f_vars, b_vars,
                   z_vars, r_vars, w_vars>>

StructNext == ReadFiling \/ EndOfInput \/ BuildCompany \/ SaveCompanies

(***************************************************************************)
(* The input of structure_companies: up to MaxFilings filings.  The        *)
(* deduplicator has left one filing per submission id, so the filing of    *)
(* line i carries the id i.                                                *)
(***************************************************************************)

MaxFilings == 3

\* "A Inc"
NameShort ==
    <<"A", " ", "I", "n", "c">>

\* "A, INC.": as long as NameMixed, and before it in the order of str
NameUpper ==
    <<"A", ",", " ", "I", "N", "C", ".">>

\* "A, Inc."
NameMixed ==
    <<"A", ",", " ", "I", "n", "c", ".">>

\* "B Co"
NameOther ==
    <<"B", " ", "C", "o">>

\* "FCC"
NameGovt ==
    <<"F", "C", "C">>

\* "2021-03-01T12:30:00Z"
DateMarch ==
    <<"2", "0", "2", "1", "-", "0", "3", "-", "0", "1", "T", "1", "2", ":",
      "3", "0", ":", "0", "0", "Z">>

\* "2021-03-01T08:00:00Z": the day of DateMarch, earlier in the day
DateMarchEarly ==
    <<"2", "0", "2", "1", "-", "0", "3", "-", "0", "1", "T", "0", "8", ":",
      "0", "0", ":", "0", "0", "Z">>

\* "2022-01-15"
DateJanuary ==
    <<"2", "0", "2", "2", "-", "0", "1", "-", "1", "5">>

\* "2020-12-31T23:59:59Z"
DateDecember ==
    <<"2", "0", "2", "0", "-", "1", "2", "-", "3", "1", "T", "2", "3", ":",
      "5", "9", ":", "5", "9", "Z">>

OneFiler(name) == JList(<<[name |-> JStr(name)]>>)

\* "DISSEMINATED"
StatusDisseminated ==
    <<"D", "I", "S", "S", "E", "M", "I", "N", "A", "T", "E", "D">>

FilingWith(filers, type, date, proceedings, documents) ==
    [filers |-> filers, submissiontype |-> type, date_received |-> date,
     proceedings |-> proceedings, documents |-> documents,
     authors |-> JAbsent, lawfirms |-> JAbsent,
     filingstatus |-> StatusDisseminated]

\* A filing whose proceedings and documents are not given.
Filing(filers, type, date) == FilingWith(filers, type, date, JAbsent, JAbsent)

\* A filing with authors and law firms.
FilingBy(filers, type, date, proceedings, authors, lawfirms) ==
    [filers |-> filers, submissiontype |-> type, date_received |-> date,
     proceedings |-> proceedings, documents |-> JAbsent,
     authors |-> authors, lawfirms |-> lawfirms,
     filingstatus |-> StatusDisseminated]

StructFilings ==
    { Filing(OneFiler(NameShort), "APPLICATION", DateMarch),
      Filing(OneFiler(NameShort), "APPLICATION", DateJanuary),
      Filing(OneFiler(NameShort), "APPLICATION", DateMarchEarly),
      Filing(OneFiler(NameShort), "SUPPLEMENT", DateDecember),
      Filing(OneFiler(NameUpper), "APPLICATION", DateMarch),
      Filing(OneFiler(NameUpper), "SUPPLEMENT", DateJanuary),
      Filing(OneFiler(NameMixed), "APPLICATION", DateJanuary),
      Filing(OneFiler(NameMixed), "SUPPLEMENT", DateMarch),
      Filing(OneFiler(NameOther), "APPLICATION", DateMarch),
      Filing(JList(<<[name |-> JStr(NameOther)], [name |-> JStr(NameShort)]>>),
             "SUPPLEMENT", DateMarchEarly),
      Filing(OneFiler(NameGovt), "APPLICATION", DateMarch),
      Filing(OneFiler(<<" ">>), "APPLICATION", DateMarch),
      Filing(JList(<<>>), "APPLICATION", DateJanuary) }

WithIds(lines) ==
    [i \in 1..Len(lines) |->
        [id_submission |-> i, filers |-> lines[i].filers,
         submissiontype |-> lines[i].submissiontype,
         date_received |-> lines[i].date_received,
         proceedings |-> lines[i].proceedings,
         documents |-> lines[i].documents,
         authors |-> lines[i].authors,
         lawfirms |-> lines[i].lawfirms,
         filingstatus |-> lines[i].filingstatus]]

StructInit ==
    /\ s_pc = "read"
    /\ s_input \in {WithIds(lines) : lines \in SeqsUpTo(StructFilings, MaxFilings)}
    /\ s_pos = 0 /\ s_k = 0
    /\ company_filings = <<>> /\ name_variations = <<>> /\ key_order = <<>>
    /\ total_filings = 0 /\ excluded_govt = 0 /\ excluded_no_filer = 0
    /\ companies = <<>> /\ stats = <<>>
    /\ n_idle /\ d_idle /\ f_idle /\ b_idle /\ z_idle /\ r_idle /\ w_idle

SpecStructure == StructInit /\ [][StructNext]_vars

(***************************************************************************)
(* A second family of inputs of structure_companies: few filings, of which *)
(* the filers, the proceedings and the documents vary (filers that are     *)
(* government bodies, missing, blank or null; names with a d/b/a marker;   *)
(* docket names that are real, placeholders, empty or missing).            *)
(***************************************************************************)

MaxIntake == 2

\* "Wireline Competition Bureau"
NameGovtBureau ==
    <<"W", "i", "r", "e", "l", "i", "n", "e", " ", "C", "o", "m", "p", "e",
      "t", "i", "t", "i", "o", "n", " ", "B", "u", "r", "e", "a", "u">>

\* "A Inc d/b/a Zed"
NameDba ==
    <<"A", " ", "I", "n", "c", " ", "d", "/", "b", "/", "a", " ", "Z", "e",
      "d">>

\* "A INC D/B/A ZED"
NameDbaUpper ==
    <<"A", " ", "I", "N", "C", " ", "D", "/", "B", "/", "A", " ", "Z", "E",
      "D">>

\* "21-1"
DocketA ==
    <<"2", "1", "-", "1">>

\* "20-5"
DocketB ==
    <<"2", "0", "-", "5">>

\* "INBOX-1.41"
DocketInboxA ==
    <<"I", "N", "B", "O", "X", "-", "1", ".", "4", "1">>

\* "INBOX-52.15"
DocketInboxB ==
    <<"I", "N", "B", "O", "X", "-", "5", "2", ".", "1", "5">>

\* "INBOX-1.4"
DocketNearInbox ==
    <<"I", "N", "B", "O", "X", "-", "1", ".", "4">>

\* "cover.pdf"
FileCover ==
    <<"c", "o", "v", "e", "r", ".", "p", "d", "f">>

\* " Ann ", "Bob", "Cy LLP": an author to strip, an author, a law firm
PersonAnn ==
    <<" ", "A", "n", "n", " ">>

PersonBob ==
    <<"B", "o", "b">>

FirmCy ==
    <<"C", "y", " ", "L", "L", "P">>

\* "IPES", "CG": descriptions of proceedings
TypeIpes ==
    <<"I", "P", "E", "S">>

TypeCg ==
    <<"C", "G">>

Proceeding(name) == [name |-> JStr(name), description |-> JAbsent]

ProceedingOf(name, description) == [name |-> JStr(name), description |-> description]

Person(name) == [name |-> JStr(name)]

IntakeFilings ==
    { Filing(OneFiler(NameShort), "APPLICATION", DateMarch),
      Filing(OneFiler(NameShort), "SUPPLEMENT", DateJanuary),
      Filing(OneFiler(NameOther), "SUPPLEMENT", DateMarch),
      Filing(OneFiler(NameOther), "APPLICATION", DateJanuary),
      Filing(OneFiler(NameGovt), "APPLICATION", DateMarch),
      Filing(OneFiler(NameGovtBureau), "SUPPLEMENT", DateMarch),
      Filing(JList(<<[name |-> JStr(NameGovt)], [name |-> JStr(NameShort)]>>),
             "APPLICATION", DateMarch),
      Filing(JList(<<[name |-> JStr(NameShort)], [name |-> JStr(NameGovt)]>>),
             "APPLICATION", DateJanuary),
      Filing(JAbsent, "APPLICATION", DateMarch),
      Filing(JNull, "APPLICATION", DateMarch),
      Filing(JList(<<>>), "APPLICATION", DateMarch),
      Filing(JList(<<[name |-> JAbsent]>>), "APPLICATION", DateMarch),
      Filing(OneFiler(<<>>), "APPLICATION", DateMarch),
      Filing(OneFiler(<<" ", "\t">>), "SUPPLEMENT", DateMarch),
      Filing(JList(<<[name |-> JNull]>>), "APPLICATION", DateMarch),
      Filing(JList(<<[name |-> JStr(<<" ">>)], [name |-> JStr(NameShort)]>>),
             "APPLICATION", DateMarch),
      Filing(OneFiler(NameDba), "APPLICATION", DateMarch),
      Filing(OneFiler(NameDbaUpper), "SUPPLEMENT", DateJanuary),
      FilingWith(OneFiler(NameShort), "APPLICATION", DateMarch,
                 JList(<<Proceeding(DocketA), Proceeding(DocketInboxA)>>), JAbsent),
      FilingWith(OneFiler(NameShort), "SUPPLEMENT", DateJanuary,
                 JList(<<Proceeding(DocketB), Proceeding(DocketA), Proceeding(DocketInboxB)>>),
                 JList(<<[filename |-> JStr(FileCover)]>>)),
      FilingWith(OneFiler(NameShort), "APPLICATION", DateJanuary,
                 JList(<<Proceeding(<<>>), [name |-> JAbsent, description |-> JAbsent],
                         [name |-> JNull, description |-> JStr(<<>>)],
                         Proceeding(DocketNearInbox)>>),
                 JList(<<[filename |-> JStr(FileCover)], [filename |-> JAbsent]>>)),
      FilingWith(OneFiler(NameShort), "APPLICATION", DateMarch, JNull, JAbsent),
      FilingWith(OneFiler(NameShort), "SUPPLEMENT", DateMarch, JAbsent, JNull),
      FilingWith(OneFiler(NameShort), "APPLICATION", DateMarch,
                 JList(<<ProceedingOf(DocketA, JStr(TypeIpes)), ProceedingOf(DocketB, JStr(TypeCg)),
                         ProceedingOf(DocketA, JNull), ProceedingOf(<<>>, JStr(TypeCg))>>),
                 JAbsent),
      FilingBy(OneFiler(NameShort), "APPLICATION", DateMarch, JAbsent,
               JList(<<Person(PersonBob), Person(PersonAnn)>>), JList(<<Person(FirmCy)>>)),
      FilingBy(OneFiler(NameDbaUpper), "APPLICATION", DateDecember,
               JList(<<ProceedingOf(DocketA, JStr(TypeIpes)), ProceedingOf(DocketB, JStr(TypeCg))>>),
               JList(<<Person(PersonBob), Person(<<" ">>), [name |-> JAbsent],
                       Person(<<"A", "n", "n">>)>>),
               JList(<<Person(PersonBob), Person(FirmCy)>>)),
      FilingBy(OneFiler(NameShort), "APPLICATION", DateJanuary, JAbsent, JNull, JAbsent),
      FilingBy(OneFiler(NameOther), "APPLICATION", DateMarch, JAbsent,
               JAbsent, JList(<<Person(FirmCy), [name |-> JNull]>>)) }

IntakeInit ==
    /\ s_pc = "read"
    /\ s_input \in {WithIds(lines) : lines \in SeqsUpTo(IntakeFilings, MaxIntake)}
    /\ s_pos = 0 /\ s_k = 0
    /\ company_filings = <<>> /\ name_variations = <<>> /\ key_order = <<>>
    /\ total_filings = 0 /\ excluded_govt = 0 /\ excluded_no_filer = 0
    /\ companies = <<>> /\ stats = <<>>
    /\ n_idle /\ d_idle /\ f_idle /\ b_idle /\ z_idle /\ r_idle /\ w_idle

SpecIntake == IntakeInit /\ [][StructNext]_vars

(***************************************************************************)
(* What the input says, read off s_input alone: for each line whether it   *)
(* reaches a group, its stripped filer name, its key and its date.  The    *)
(* properties bind it as a value (\A L \in {Lines}), computed once.         *)
(***************************************************************************)

\* What becomes of a filing with the given filers, and its key; a table
\* over the filers of the inputs.
FilerView ==
    [filers \in {f.filers : f \in StructFilings \cup IntakeFilings} |->
        LET outcome == FilerOutcome([filers |-> filers])
        IN  [kind |-> outcome.kind, name |-> outcome.name,
             key |-> normalize_company_name(outcome.name)]]

RECURSIVE LinesUpTo(_)
LinesUpTo(n) ==
    IF n = 0 THEN <<>>
    ELSE LET outcome == FilerView[s_input[n].filers]
         IN  Append(LinesUpTo(n - 1),
                    [id |-> s_input[n].id_submission,
                     grouped |-> outcome.kind = "group",
                     name |-> outcome.name,
                     key |-> outcome.key,
                     application |-> s_input[n].submissiontype = "APPLICATION",
                     received |-> s_input[n].date_received,
                     date |-> Prefix(s_input[n].date_received, DateLen)])

Lines == LinesUpTo(Len(s_input))

\* The lines of a key, and its applications.
Members(L, key) == {i \in 1..Len(L) : L[i].grouped /\ L[i].key = key}

Applications(L, key) == {i \in Members(L, key) : L[i].application}

\* The keys with at least one application.
ApplicantKeys(L) == {L[i].key : i \in {j \in 1..Len(L) : L[j].grouped /\ L[j].application}}

\* C2: the latest_filing_date of every emitted record is the greatest date
\* (truncated to YYYY-MM-DD) over all filings of its group, applications
\* and others alike, in whatever order the filings arrive.
C2_LatestIsMax ==
    s_pc = "done" =>
        \A L \in {Lines} :
            \A r \in 1..Len(companies) :
                LET members == Members(L, companies[r].company_name_normalized)
                    latest == companies[r].latest_filing_date
                IN  /\ \E i \in members : L[i].date = latest
                    /\ \A i \in members : StrLeq(L[i].date, latest)

\* C3: the first_filing_date of every emitted record is the least date
\* among the APPLICATION filings of its group, each truncated to its first
\* 10 characters; the other filings do not influence it.
C3_FirstIsMinApplication ==
    s_pc = "done" =>
        \A L \in {Lines} :
            \A r \in 1..Len(companies) :
                LET applications == Applications(L, companies[r].company_name_normalized)
                    first == companies[r].first_filing_date
                IN  /\ \E i \in applications : L[i].date = first
                    /\ \A i \in applications : StrLeq(first, L[i].date)

\* A record with a filing of another type before its first application,
\* whose applications arrive the later one first.
C3_Witness ==
    /\ s_pc = "done"
    /\ \E L \in {Lines} :
           \E r \in 1..Len(companies) :
               LET members == Members(L, companies[r].company_name_normalized)
                   applications == Applications(L, companies[r].company_name_normalized)
               IN  /\ \E i \in members \ applications :
                         StrLess(L[i].date, companies[r].first_filing_date)
                   /\ \E i, j \in applications : i < j /\ StrLess(L[j].received, L[i].received)

\* C4: every grouped filing whose key has an application is in the filing
\* history of exactly one emitted record, once, and that record carries the
\* key of the filing; the total_filing_count of the record is the number of
\* input filings with that key and its application_count the number of
\* those that are applications.
C4_Grouping ==
    s_pc = "done" =>
        \A L \in {Lines} : \A applicants \in {ApplicantKeys(L)} :
        LET Entries(r, id) ==
                {e \in 1..Len(companies[r].filings) : companies[r].filings[e].id = id}
        IN  \A i \in 1..Len(L) :
                (L[i].grouped /\ L[i].key \in applicants) =>
                    \E r \in 1..Len(companies) :
                        /\ companies[r].company_name_normalized = L[i].key
                        /\ Cardinality(Entries(r, L[i].id)) = 1
                        /\ \A q \in 1..Len(companies) : q # r => Entries(q, L[i].id) = {}
                        /\ companies[r].total_filing_count = Cardinality(Members(L, L[i].key))
                        /\ companies[r].application_count
                               = Cardinality(Applications(L, L[i].key))

\* One record of three filings, two of them applications, filed under more
\* than one spelling of the name.
C4_Witness ==
    /\ s_pc = "done"
    /\ Len(companies) = 1
    /\ companies[1].total_filing_count = 3
    /\ companies[1].application_count = 2
    /\ Len(companies[1].name_variations) >= 2

\* C5: the output has exactly one record for each key with at least one
\* grouped APPLICATION filing and none for a key whose filings are all of
\* other types; no two records carry the same company_name_normalized.
C5_OneRecordPerApplicant ==
    s_pc = "done" =>
        \A applicants \in {ApplicantKeys(Lines)} :
        LET RecordsOf(key) ==
                {r \in 1..Len(companies) : companies[r].company_name_normalized = key}
        IN  /\ \A key \in applicants : Cardinality(RecordsOf(key)) = 1
            /\ \A r \in 1..Len(companies) : companies[r].company_name_normalized \in applicants
            /\ \A r, q \in 1..Len(companies) :
                  companies[r].company_name_normalized = companies[q].company_name_normalized
                      => r = q

\* A key with two filings and a record, and another key with a supplement
\* only and no record.
C5_Witness ==
    /\ s_pc = "done"
    /\ Len(companies) = 1
    /\ companies[1].total_filing_count = 2
    /\ \E L \in {Lines} :
           \E i \in 1..Len(L) :
               /\ L[i].grouped /\ ~L[i].application
               /\ L[i].key # companies[1].company_name_normalized

\* C6: the company_name of every emitted record is the longest of the
\* distinct raw filer names seen for its key and, among the names of that
\* length, the least in the order of str; it is decided by the set of names
\* alone, not by the order in which they were seen.
C6_CanonicalName ==
    s_pc = "done" =>
        \A L \in {Lines} :
            \A r \in 1..Len(companies) :
                LET names == {L[i].name : i \in Members(L, companies[r].company_name_normalized)}
                    elected == companies[r].company_name
                IN  /\ elected \in names
                    /\ \A n \in names :
                          \/ Len(n) < Len(elected)
                          \/ (Len(n) = Len(elected) /\ StrLeq(elected, n))

\* A record elected among a shorter name and two names of the greatest
\* length, of which the later in the order of str is seen first.
C6_Witness ==
    /\ s_pc = "done"
    /\ Len(companies) = 1
    /\ companies[1].company_name = NameUpper
    /\ \E L \in {Lines} :
           /\ Len(L) = 3
           /\ L[1].name = NameMixed /\ L[2].name = NameShort /\ L[3].name = NameUpper

(***************************************************************************)
(* The filers of the input lines, read off the JSON alone.                 *)
(***************************************************************************)

\* The name of the first entry of filers[], as the JSON gives it (absent
\* when there is no first entry).
FirstFilerName(filing) ==
    IF filing.filers.t = "list" /\ filing.filers.v # <<>>
    THEN filing.filers.v[1].name
    ELSE JAbsent

\* A name with a government-body fragment in it, letter case ignored.
NamesGovernment(name) == \E kw \in govt_keywords : ContainsIgnoringCase(name, kw)

\* The lines read so far whose first filer is a government body.
GovtLines ==
    {i \in 1..s_pos :
        FirstFilerName(s_input[i]).t = "str" /\ NamesGovernment(FirstFilerName(s_input[i]).v)}

\* The ids of the filings in the groups, and in the histories of the records.
GroupedIds ==
    UNION {{company_filings[key][k].id_submission : k \in 1..Len(company_filings[key])} :
           key \in DOMAIN company_filings}

EmittedIds ==
    UNION {{companies[r].filings[e].id : e \in 1..Len(companies[r].filings)} :
           r \in 1..Len(companies)}

\* The raw names kept as variations of some key, and those of the records.
VariationNames == UNION {name_variations[key] : key \in DOMAIN name_variations}

EmittedNames ==
    UNION {{companies[r].name_variations[k] : k \in 1..Len(companies[r].name_variations)}
               \cup {companies[r].company_name} :
           r \in 1..Len(companies)}

\* C11: a filing whose first filer name contains one of the government-body
\* fragments, letter case ignored, is counted once in excluded_govt and is
\* in no group, no set of name variations and no emitted record, whatever
\* its submission type.
C11_GovernmentExcluded ==
    \A G \in {GovtLines} :
        /\ excluded_govt = Cardinality(G)
        /\ s_pc = "done" => stats.excluded_govt = Cardinality(G)
        /\ \A i \in G :
              /\ i \notin GroupedIds
              /\ i \notin EmittedIds
              /\ Strip(FirstFilerName(s_input[i]).v) \notin VariationNames \cup EmittedNames

\* A run that emits a record and has excluded an APPLICATION filed by a
\* government body whose name is spelled in capitals.
C11_Witness ==
    /\ s_pc = "done"
    /\ Len(companies) = 1
    /\ excluded_govt = 1
    /\ \E i \in 1..Len(s_input) :
           /\ FirstFilerName(s_input[i]) = JStr(NameGovt)
           /\ s_input[i].submissiontype = "APPLICATION"

\* The lines read so far that name no filer: no filers list or an empty
\* one, or a first filer whose name is missing, null, empty or blank.
NoFilerLines ==
    {i \in 1..s_pos :
        \/ FirstFilerName(s_input[i]).t \in {"absent", "null"}
        \/ Strip(FirstFilerName(s_input[i]).v) = <<>>}

\* C12: only the first entry of filers[] decides the group of a filing; a
\* filing without filers, or whose first filer name is missing, null, empty
\* or blank, is in no group and no record, is counted once in
\* excluded_no_filer, and does not abort the run.
C12_NoFilerExcluded ==
    \A N \in {NoFilerLines} :
        /\ s_pc # "AttributeError"
        /\ excluded_no_filer = Cardinality(N)
        /\ \A i \in N : i \notin GroupedIds /\ i \notin EmittedIds
        /\ \A key \in DOMAIN company_filings :
              \A k \in 1..Len(company_filings[key]) :
                  key = normalize_company_name(
                            Strip(FirstFilerName(company_filings[key][k]).v))

\* The part of C12 that the code keeps: every line that names no filer and
\* whose first filer name is not null.
C12_ExceptNullName ==
    \A N \in {NoFilerLines} :
        s_pc # "AttributeError" =>
            /\ excluded_no_filer = Cardinality(N)
            /\ \A i \in N : i \notin GroupedIds /\ i \notin EmittedIds
            /\ \A key \in DOMAIN company_filings :
                  \A k \in 1..Len(company_filings[key]) :
                      key = normalize_company_name(
                                Strip(FirstFilerName(company_filings[key][k]).v))

(***************************************************************************)
(* The suffix table of the normalizer, seen from the names.                *)
(***************************************************************************)

\* The letters of a spelling of a suffix: lowercased, its dots left out.
SuffixLetters(x) == SelectSeq(Lower(x), LAMBDA c : c # ".")

EndsWith(s, tail) ==
    Len(s) >= Len(tail) /\ SubSeq(s, Len(s) - Len(tail) + 1, Len(s)) = tail

\* C13: for each of the eight suffixes and every base name, every spelling
\* of the suffix appended to the base (with or without a comma before it,
\* with or without dots, in any letter case) normalizes to one and the same
\* key, the key of the plain spelling, and that key ends in the canonical
\* spelling of the suffix preceded by one space.
C13_SuffixVariantsAgree ==
    n_pc \in {"once", "twice"} =>
        \A b \in NormBases : \A p \in NormSeps \ {<<>>} : \A x \in NormSuffixes :
            n_name = b \o p \o x =>
                /\ n_once = normalize_company_name(b \o <<" ">> \o SuffixLetters(x))
                /\ EndsWith(n_once, <<" ">> \o SuffixLetters(x))
                /\ ~EndsWith(n_once, <<" ", " ">> \o SuffixLetters(x))

\* The part of C13 that the code keeps: the suffixes other than LLP and PLLC.
C13_ExceptLlpAndPllc ==
    n_pc \in {"once", "twice"} =>
        \A b \in NormBases : \A p \in NormSeps \ {<<>>} : \A x \in NormSuffixes :
            (/\ n_name = b \o p \o x
             /\ SuffixLetters(x) \notin {<<"l", "l", "p">>, <<"p", "l", "l", "c">>}) =>
                n_once = Lower(b) \o <<" ">> \o SuffixLetters(x)

RECURSIVE FirstMatchOnly(_, _)
\* A loop over the suffix table that stops after the first rule whose
\* pattern matches.
FirstMatchOnly(s, k) ==
    IF k > Len(suffixes) THEN s
    ELSE IF \E i \in 1..Len(s) : SuffixMatch(From(s, i), suffixes[k])
    THEN ReSubSuffix(s, suffixes[k], <<" ">> \o suffixes[k])
    ELSE FirstMatchOnly(s, k + 1)

\* The normalizer with that loop in the place of the loop over all rules.
NormalizeFirstMatchOnly(name) ==
    IF name = <<>> THEN <<>>
    ELSE RStripSet(Strip(CollapseSpace(FirstMatchOnly(Strip(Lower(name)), 1))),
                   {".", ","})

\* C14: at most one suffix rule takes effect on a name, the first in table
\* order whose pattern matches: normalize_company_name gives what the
\* normalizer that stops after the first matching rule gives.
C14_FirstRuleOnly ==
    n_pc \in {"once", "twice"} => n_once = NormalizeFirstMatchOnly(n_name)

(***************************************************************************)
(* The emitted records against the input lines.                            *)
(***************************************************************************)

\* The elements of a list.
Range(seq) == {seq[k] : k \in 1..Len(seq)}

\* C16: the company_name of every emitted record is a raw filer name of its
\* group as it was filed (not the part before a d/b/a marker), it is one of
\* the record's name_variations, its normalization is the record's
\* company_name_normalized, and the record's dba_name is the second
\* component of extract_dba_name(company_name), null without a marker.
C16_NameAndDba ==
    s_pc = "done" =>
        \A L \in {Lines} :
            \A r \in 1..Len(companies) :
                \E name \in {companies[r].company_name} :
                \E split \in {extract_dba_name(name)} :
                    /\ name \in {L[i].name :
                                    i \in Members(L, companies[r].company_name_normalized)}
                    /\ name \in Range(companies[r].name_variations)
                    /\ normalize_company_name(name) = companies[r].company_name_normalized
                    /\ companies[r].dba_name = split[2]
                    /\ (MarkerPlaces(name) = {}) = (companies[r].dba_name = JNull)
                    /\ companies[r].dba_name # JNull => name # split[1]

\* A record of a company filed under two spellings of a name with a d/b/a
\* marker, whose dba_name is the brand after the marker.
C16_Witness ==
    /\ s_pc = "done"
    /\ Len(companies) = 1
    /\ companies[1].company_name = NameDbaUpper
    /\ companies[1].dba_name = JStr(<<"Z", "E", "D">>)
    /\ Len(companies[1].name_variations) = 2

\* The docket names that the filings of a key give: the non-empty names of
\* their proceedings other than the two placeholders.
DocketsOf(L, key) ==
    UNION {{p.name.v : p \in {q \in Range(s_input[i].proceedings.v) :
                                 /\ q.name.t = "str" /\ q.name.v # <<>>
                                 /\ q.name.v \notin {DocketInboxB, DocketInboxA}}} :
           i \in Members(L, key)}

\* C17: the docket_numbers of every emitted record are exactly the
\* non-empty proceedings[].name values of the filings of its group other
\* than 'INBOX-52.15' and 'INBOX-1.41', in ascending order, each once.
C17_DocketNumbers ==
    s_pc = "done" =>
        \A L \in {Lines} :
            \A r \in 1..Len(companies) :
                \E dockets \in {companies[r].docket_numbers} :
                    /\ Range(dockets) = DocketsOf(L, companies[r].company_name_normalized)
                    /\ \A k \in 1..(Len(dockets) - 1) : StrLess(dockets[k], dockets[k + 1])

\* A record of two filings that name one docket twice, another docket that
\* sorts before it, and both placeholders.
C17_Witness ==
    /\ s_pc = "done"
    /\ Len(companies) = 1
    /\ companies[1].docket_numbers = <<DocketB, DocketA>>
    /\ s_input[1].proceedings = JList(<<Proceeding(DocketA), Proceeding(DocketInboxA)>>)
    /\ s_input[2].proceedings
           = JList(<<Proceeding(DocketB), Proceeding(DocketA), Proceeding(DocketInboxB)>>)

\* C18: the filing history of every emitted record has exactly one entry
\* for each filing of its group, applications and others, and is sorted in
\* non-decreasing order of the truncated date; entries of equal dates keep
\* the order of the input.
C18_FilingHistory ==
    s_pc = "done" =>
        \A L \in {Lines} :
            \A r \in 1..Len(companies) :
                \E history \in {companies[r].filings} :
                \E members \in {Members(L, companies[r].company_name_normalized)} :
                    /\ Len(history) = Cardinality(members)
                    /\ {history[e].id : e \in 1..Len(history)} = members
                    /\ \A e \in 1..Len(history) : history[e].date = L[history[e].id].date
                    /\ \A e \in 1..(Len(history) - 1) :
                          \/ StrLess(history[e].date, history[e + 1].date)
                          \/ /\ history[e].date = history[e + 1].date
                             /\ history[e].id < history[e + 1].id

\* A record of three filings: two of one day, the later in the day filed
\* first, and then a filing of an earlier day.
C18_Witness ==
    /\ s_pc = "done"
    /\ Len(companies) = 1
    /\ Len(s_input) = 3
    /\ s_input[1].date_received = DateMarch
    /\ s_input[2].date_received = DateMarchEarly
    /\ s_input[3].date_received = DateDecember
    /\ Len(companies[1].filings) = 3

\* C19: the emitted list of records is in strictly ascending order of
\* company_name_normalized.
C19_RecordsSorted ==
    s_pc = "done" =>
        \A r \in 1..(Len(companies) - 1) :
            StrLess(companies[r].company_name_normalized,
                    companies[r + 1].company_name_normalized)

\* Two records, of which the one that sorts second was filed first.
C19_Witness ==
    /\ s_pc = "done"
    /\ Len(companies) = 2
    /\ key_order[1] = companies[2].company_name_normalized
    /\ key_order[2] = companies[1].company_name_normalized

\* The keys of the groups without an APPLICATION, and their filings.
DroppedKeys(L) == {L[i].key : i \in {j \in 1..Len(L) : L[j].grouped}} \ ApplicantKeys(L)

DroppedFilings(L) == {i \in 1..Len(L) : L[i].grouped /\ L[i].key \in DroppedKeys(L)}

\* C20: every intentional exclusion is counted in the run statistics:
\* besides excluded_govt and excluded_no_filer, the groups dropped for
\* having no APPLICATION (or their filings) are reported as a count of
\* their own, so that the statistics account for every input filing that
\* reaches no record.
C20_DroppedGroupsCounted ==
    s_pc = "done" =>
        \A L \in {Lines} :
            DroppedKeys(L) # {} =>
                \E field \in DOMAIN stats \ {"total_filings", "excluded_govt",
                                             "excluded_no_filer", "unique_companies",
                                             "companies_with_multiple_apps",
                                             "total_documents"} :
                    stats[field] \in {Cardinality(DroppedKeys(L)),
                                      Cardinality(DroppedFilings(L))}

\* The part of C20 that the code keeps: the two counted exclusions, the
\* filings of the records and the filings of the dropped groups make up
\* the input.
C20_AccountedWithDropped ==
    s_pc = "done" =>
        \A L \in {Lines} :
            stats.total_filings
                = stats.excluded_govt + stats.excluded_no_filer
                  + Cardinality(EmittedIds) + Cardinality(DroppedFilings(L))

\* C27: for every emitted record, first_filing_date <= latest_filing_date
\* (as YYYY-MM-DD strings), so that the difference of the two dates, of
\* which years_active is derived, is never negative.
C27_FirstNotAfterLatest ==
    s_pc = "done" =>
        \A r \in 1..Len(companies) :
            StrLeq(companies[r].first_filing_date, companies[r].latest_filing_date)

\* The part of C27 that the code keeps: first_filing_date is not after the
\* greatest date of the group, which latest_filing_date would be if it were
\* the maximum (C2).
C27_FirstNotAfterGreatest ==
    s_pc = "done" =>
        \A L \in {Lines} :
            \A r \in 1..Len(companies) :
                \E i \in Members(L, companies[r].company_name_normalized) :
                    StrLeq(companies[r].first_filing_date, L[i].date)

\* The key of every stripped filer name of the inputs, as a table.
NameKeys ==
    [name \in {FilerView[filers].name : filers \in DOMAIN FilerView} |->
        normalize_company_name(name)]

RECURSIVE SumGroupSizes(_)
\* The sum of the sizes of the groups, from the group at position i of the
\* insertion order on.
SumGroupSizes(i) ==
    IF i > Len(key_order) THEN 0
    ELSE Len(company_filings[key_order[i]]) + SumGroupSizes(i + 1)

\* The places (group, position) at which the filing with the given id is.
PlacesOf(id) ==
    {place \in UNION {{<<key, j>> : j \in 1..Len(company_filings[key])} :
                      key \in DOMAIN company_filings} :
        company_filings[place[1]][place[2]].id_submission = id}

\* C28: at every boundary of the loop over the input (before the first
\* filing, between two filings, after the last), every filing read so far
\* is in exactly one of three classes: counted in excluded_govt, counted in
\* excluded_no_filer, or appended once to one group; so total_filings is
\* the sum of the two counts and of the sizes of the groups, and the
\* name-variation set of every group is non-empty and holds only names
\* that normalize to the key of the group.
C28_Accounting ==
    s_pc # "AttributeError" =>
        /\ \A id \in 1..total_filings : Cardinality(PlacesOf(id)) <= 1
        /\ excluded_govt + excluded_no_filer
               = Cardinality({id \in 1..total_filings : PlacesOf(id) = {}})
        /\ total_filings = excluded_govt + excluded_no_filer + SumGroupSizes(1)
        /\ DOMAIN name_variations = DOMAIN company_filings
        /\ \A key \in DOMAIN company_filings :
               /\ company_filings[key] # <<>>
               /\ name_variations[key] # {}
               /\ \A name \in name_variations[key] : NameKeys[name] = key

\* Between two filings: one filing was excluded, the next joined a group.
C28_Witness ==
    /\ s_pc = "read"
    /\ s_pos = 2
    /\ excluded_govt + excluded_no_filer = 1
    /\ SumGroupSizes(1) = 1
    /\ PlacesOf(2) # {}

\* C30: a suffix rule rewrites a name only when the suffix is a separate
\* trailing token: a name whose last word merely ends in the letters of a
\* suffix (the base and the suffix written as one word) keeps that word in
\* its key, and so does not share its key with the name in which the
\* suffix is a word of its own.
C30_SuffixIsSeparateToken ==
    n_pc \in {"once", "twice"} =>
        \A base \in NormBases :
            \A suffix \in {x \in NormSuffixes : \A k \in 1..Len(x) : x[k] # "."} :
                n_name = base \o suffix =>
                    /\ n_once = Lower(base \o suffix)
                    /\ n_once # normalize_company_name(base \o <<" ">> \o suffix)

RECURSIVE RecordsAscending(_)
\* The records that the first k groups give when every set is iterated in
\* ascending order of its elements: one run among those the language allows.
RecordsAscending(k) ==
    IF k = 0 THEN <<>>
    ELSE LET key == key_order[k]
             filings == company_filings[key]
         IN  IF SelectSeq(filings, IsApplication) = <<>>
             THEN RecordsAscending(k - 1)
             ELSE Append(RecordsAscending(k - 1),
                         CompanyRecord(key, filings,
                                       SortedStrs(name_variations[key]),
                                       SortedStrs(Dockets(filings)),
                                       SortedStrs(StrippedNames(filings, "authors")),
                                       SortedStrs(StrippedNames(filings, "lawfirms")),
                                       SortedStrs(ProceedingTypes(filings))))

\* C21: whatever order the iteration over the internal sets (name
\* variations, dockets, contacts, attorneys, proceeding types) takes in a
\* run, the output of the run is the output of the run on the same input
\* that iterates every set in ascending order, field for field and in the
\* same order of records; so any two runs on one input agree.  (The groups
\* company_filings, name_variations and their order are read off the input
\* without a choice.)
C21_Deterministic ==
    s_pc = "done" => companies = SortCompanies(RecordsAscending(Len(key_order)))

\* An emitted record made of sets of several elements, which can be
\* iterated in more than one order.
C21_Witness ==
    /\ s_pc = "done"
    /\ \E r \in 1..Len(companies) :
           /\ Len(companies[r].name_variations) >= 2
           /\ Len(companies[r].contacts) >= 2
           /\ Len(companies[r].attorneys) >= 2
           /\ Len(companies[r].docket_numbers) >= 2
           /\ Len(companies[r].proceeding_types) >= 2

\* The fields of a record that identity resolution decides.
Identity(record) ==
    [company_name_normalized |-> record.company_name_normalized,
     company_name |-> record.company_name,
     dba_name |-> record.dba_name,
     name_variations |-> record.name_variations,
     docket_numbers |-> record.docket_numbers,
     contacts |-> record.contacts,
     attorneys |-> record.attorneys,
     application_count |-> record.application_count,
     total_filing_count |-> record.total_filing_count,
     first_filing_date |-> record.first_filing_date]

\* The same fields for a key, said of the filings of the key as a multiset:
\* every field is the image or the size of a set of lines, which does not
\* change when the lines are permuted.
IdentityOf(L, key) ==
    LET members == Members(L, key)
        names == {L[i].name : i \in members}
        elected == CHOOSE n \in names : \A m \in names \ {n} : VariationBefore(n, m)
        dates == {L[i].date : i \in Applications(L, key)}
    IN  [company_name_normalized |-> key,
         company_name |-> elected,
         dba_name |-> extract_dba_name(elected)[2],
         name_variations |-> SortedStrs(names),
         docket_numbers |-> SortedStrs(DocketsOf(L, key)),
         contacts |-> SortedStrs(UNION {StrippedNames(<<s_input[i]>>, "authors") : i \in members}),
         attorneys |-> SortedStrs(UNION {StrippedNames(<<s_input[i]>>, "lawfirms") : i \in members}),
         application_count |-> Cardinality(Applications(L, key)),
         total_filing_count |-> Cardinality(members),
         first_filing_date |-> CHOOSE d \in dates : \A e \in dates : StrLeq(d, e)]

\* C29: the records that a run emits are, as far as company_name_normalized,
\* company_name, dba_name, name_variations, docket_numbers, contacts,
\* attorneys, application_count, total_filing_count and first_filing_date
\* are concerned, a function of the multiset of the input filings: one
\* record for each key with an application, with the fields that the
\* filings of the key have as a set; so every permutation of the input
\* emits the same set of records.
C29_OrderIndependent ==
    s_pc = "done" =>
        \A L \in {Lines} :
            /\ Len(companies) = Cardinality(ApplicantKeys(L))
            /\ {Identity(companies[r]) : r \in 1..Len(companies)}
                   = {IdentityOf(L, key) : key \in ApplicantKeys(L)}

\* A record of two applications that arrive the later one first, under two
\* spellings of the name.
C29_Witness ==
    /\ s_pc = "done"
    /\ \E L \in {Lines} :
           \E r \in 1..Len(companies) :
               \E i, j \in Applications(L, companies[r].company_name_normalized) :
                   /\ i < j
                   /\ StrLess(L[j].date, L[i].date)
                   /\ L[i].name # L[j].name

(***************************************************************************)
(* download_docs.py and enrich.py: the two copies of sanitize_filename.    *)
(* Each is translated from its own source text.                            *)
(***************************************************************************)

\* The index of the last '.' of s, or 0: where rsplit('.', 1) splits.
LastDot(s) ==
    LET dots == {i \in 1..Len(s) : s[i] = "."}
    IN  IF dots = {} THEN 0 ELSE CHOOSE i \in dots : \A j \in dots : j <= i

\* re.sub(r'[...]', '_', s) for a class of characters.
SubClass(s, class) == [i \in 1..Len(s) |-> IF s[i] \in class THEN "_" ELSE s[i]]

\* re.sub(r'[_\s]+', '_', s): every maximal run of underscores and
\* whitespace becomes one underscore.
\* (Each character is paired with whether the one before it is of a run;
\* a character of a run is kept when it starts the run.)
CollapseRuns(s) ==
    LET InRun(c) == c = "_" \/ IsSpace(c)
        paired == [i \in 1..Len(s) |-> <<s[i], i > 1 /\ InRun(s[IF i > 1 THEN i - 1 ELSE 1])>>]
        Kept(pair) == ~(InRun(pair[1]) /\ pair[2])
        kept == SelectSeq(paired, Kept)
    IN  [i \in 1..Len(kept) |-> IF InRun(kept[i][1]) THEN "_" ELSE kept[i][1]]

\* download_docs.py: the class [<>:"/\\|?*]
download_unsafe == {"<", ">", ":", "\"", "/", "\\", "|", "?", "*"}

\* download_docs.py: sanitize_filename
sanitize_filename(filename) ==
    LET replaced == CollapseRuns(SubClass(filename, download_unsafe))
    IN  IF Len(replaced) > 100
        THEN LET dot == LastDot(replaced)
                 name == IF dot > 0 THEN SubSeq(replaced, 1, dot - 1) ELSE replaced
                 ext == IF dot > 0 THEN From(replaced, dot + 1) ELSE <<>>
             IN  Prefix(name, 95) \o (IF ext # <<>> THEN <<".">> \o ext ELSE <<>>)
        ELSE replaced

\* enrich.py: the class [<>:"/\\|?*]
enrich_unsafe == {"<", ">", ":", "\"", "/", "\\", "|", "?", "*"}

\* A copy that cuts the name at 100 characters.
enrich_sanitize_filename_CutAt100(filename) ==
    LET replaced == CollapseRuns(SubClass(filename, enrich_unsafe))
    IN  IF Len(replaced) > 100
        THEN LET dot == LastDot(replaced)
                 name == IF dot > 0 THEN SubSeq(replaced, 1, dot - 1) ELSE replaced
                 ext == IF dot > 0 THEN From(replaced, dot + 1) ELSE <<>>
             IN  Prefix(name, 100) \o (IF ext # <<>> THEN <<".">> \o ext ELSE <<>>)
        ELSE replaced

\* enrich.py: sanitize_filename
enrich_sanitize_filename(filename) ==
    LET replaced == CollapseRuns(SubClass(filename, enrich_unsafe))
    IN  IF Len(replaced) > 100
        THEN LET dot == LastDot(replaced)
                 name == IF dot > 0 THEN SubSeq(replaced, 1, dot - 1) ELSE replaced
                 ext == IF dot > 0 THEN From(replaced, dot + 1) ELSE <<>>
             IN  Prefix(name, 95) \o (IF ext # <<>> THEN <<".">> \o ext ELSE <<>>)
        ELSE replaced

(***************************************************************************)
(* File names given to sanitize_filename: a head with characters to        *)
(* replace or to collapse, a run of letters that brings the name near or   *)
(* beyond 100 characters, and an extension.                                *)
(***************************************************************************)

\* The longest run of letters.
MaxFill == 120

Rep(c, n) == [i \in 1..n |-> c]

FileHeads ==
    { <<>>,
      <<"a", " ", "b">>,
      <<"a", "_", "_", " ", "\t", "b", "_">>,
      <<"a", "<", "b", ">", ":", "\"", "/", "\\", "|", "?", "*", "_", " ", "c">>,
      <<"x", ".", "y">>,
      <<" ">> }

FileFills == {0, 1, 85, 90, 94, 95, 96, 97, MaxFill}

FileExts ==
    { <<>>,
      <<".">>,
      <<".", "p", "d", "f">>,
      <<".", "P", "D", "F">>,
      <<".", "d", "o", "c">>,
      <<".", "d", "o", "c", "x">>,
      <<".", "x", "h", "t", "m", "l">>,
      <<".", "t", "x", "t">>,
      <<".", "p", "d", "f", " ">> }

Filenames == {head \o Rep("a", n) \o ext : head \in FileHeads, n \in FileFills, ext \in FileExts}

SanitizeInit ==
    /\ z_pc = "start" /\ z_filename \in Filenames
    /\ z_download = <<>> /\ z_enrich = <<>>
    /\ n_idle /\ d_idle /\ f_idle /\ b_idle /\ s_idle /\ r_idle /\ w_idle

\* download_docs.py: filename = sanitize_filename(doc["filename"])
SanitizeForDownload ==
    /\ z_pc = "start"
    /\ z_download' = sanitize_filename(z_filename)
    /\ z_pc' = "download"
    /\ UNCHANGED <<z_filename, z_enrich, n_vars, d_vars, f_vars, b_vars, s_vars, r_vars, w_vars>>

\* enrich.py: sanitized = sanitize_filename(filename)
SanitizeForEnrich ==
    /\ z_pc = "download"
    /\ z_enrich' = enrich_sanitize_filename(z_filename)
    /\ z_pc' = "both"
    /\ UNCHANGED <<z_filename, z_download, n_vars, d_vars, f_vars, b_vars, s_vars, r_vars, w_vars>>

SanitizeNext == SanitizeForDownload \/ SanitizeForEnrich

SpecSanitize == SanitizeInit /\ [][SanitizeNext]_vars

\* C22: the two copies of sanitize_filename, of the downloader and of the
\* enrichment step, return the same string for every input filename.
C22_CopiesAgree == z_pc = "both" => z_download = z_enrich

\* A name of more than 100 characters with characters to replace and runs
\* to collapse, which both copies have cut.
C22_Witness ==
    /\ z_pc = "both"
    /\ Len(z_filename) > 100
    /\ \E i \in 1..Len(z_filename) : z_filename[i] \in download_unsafe
    /\ \E i \in 1..(Len(z_filename) - 1) : z_filename[i] = "_" /\ IsSpace(z_filename[i + 1])
    /\ Len(z_enrich) < Len(CollapseRuns(SubClass(z_filename, enrich_unsafe)))

\* The text after the last '.' of a name; empty for a name without a '.'.
Extension(s) == IF LastDot(s) = 0 THEN <<>> ELSE From(s, LastDot(s) + 1)

\* C23: for every input filename, sanitize_filename returns a string of at
\* most 100 characters that contains none of < > : " / \ | ? *, no
\* whitespace and no run of two or more underscores, and whose extension
\* (the text after the last '.') is that of the sanitized untruncated name.
C23_SafeAndShort ==
    z_pc \in {"download", "both"} =>
        /\ Len(z_download) <= 100
        /\ \A i \in 1..Len(z_download) :
               z_download[i] \notin download_unsafe /\ ~IsSpace(z_download[i])
        /\ \A i \in 1..(Len(z_download) - 1) :
               ~(z_download[i] = "_" /\ z_download[i + 1] = "_")
        /\ Extension(z_download)
               = Extension(CollapseRuns(SubClass(z_filename, download_unsafe)))

\* The part of C23 that the code keeps: the characters, and the extension
\* and the length of the names whose extension is of at most 4 characters
\* and not empty after a '.'.
C23_ExceptLongExtension ==
    z_pc \in {"download", "both"} =>
        \E untruncated \in {CollapseRuns(SubClass(z_filename, download_unsafe))} :
            /\ \A i \in 1..Len(z_download) :
                   z_download[i] \notin download_unsafe /\ ~IsSpace(z_download[i])
            /\ \A i \in 1..(Len(z_download) - 1) :
                   ~(z_download[i] = "_" /\ z_download[i + 1] = "_")
            /\ (LastDot(untruncated) = 0 \/ Len(Extension(untruncated)) \in 1..4) =>
                   /\ Len(z_download) <= 100
                   /\ Extension(z_download) = Extension(untruncated)

(***************************************************************************)
(* The name of one document through the pipeline: the downloader saves it  *)
(* (download_docs.py), the text extractor writes its text next to the name *)
(* of the saved file (extract_text.py), and the enrichment step computes   *)
(* the name of the text file from the manifest (enrich.py).                *)
(***************************************************************************)

\* Path(s).name of a string without a separator: "." is the current
\* directory, which has no name.
PathName(s) == IF s = <<".">> THEN <<>> ELSE s

\* Path(s).suffix: from the last '.' of the name on, unless that '.' is the
\* first or the last character of the name.
PathSuffix(s) ==
    LET name == PathName(s)
        dot == LastDot(name)
    IN  IF 1 < dot /\ dot < Len(name) THEN From(name, dot) ELSE <<>>

\* Path(s).stem: the name without its suffix.
PathStem(s) ==
    LET name == PathName(s)
    IN  SubSeq(name, 1, Len(name) - Len(PathSuffix(s)))

\* ".txt"
TxtSuffix ==
    <<".", "t", "x", "t">>

\* The suffixes of "*.pdf", "*.docx", "*.doc", which are also the suffixes
\* that process_file extracts.
supported_suffixes ==
    { <<".", "p", "d", "f">>, <<".", "d", "o", "c", "x">>, <<".", "d", "o", "c">> }

\* "12"
FilingId ==
    <<"1", "2">>

RelocateInit ==
    /\ r_pc = "start"
    /\ r_doc \in [filing_id : {<<>>, FilingId}, filename : Filenames]
    /\ r_saved = <<>> /\ r_output = <<>> /\ r_status = "none" /\ r_expected = <<>>
    /\ n_idle /\ d_idle /\ f_idle /\ b_idle /\ s_idle /\ z_idle /\ w_idle

\* download_document: output_filename = f"{filing_id}_{filename}" of the
\* sanitized filename; the file is saved under that name.
OutputFilename ==
    /\ r_pc = "start"
    /\ r_saved' = r_doc.filing_id \o <<"_">> \o sanitize_filename(r_doc.filename)
    /\ r_pc' = "saved"
    /\ UNCHANGED <<r_doc, r_output, r_status, r_expected,
                   n_vars, d_vars, f_vars, b_vars, s_vars, z_vars, w_vars>>

\* extract_all and process_file: the saved file is found when its name
\* matches one of the three patterns (glob compares the letters as they
\* are); the text goes to the stem of its name plus ".txt", when the
\* extraction of the format succeeds.
ProcessFile ==
    /\ r_pc = "saved"
    /\ IF \E suffix \in supported_suffixes : EndsWith(r_saved, suffix)
       THEN /\ r_output' = PathStem(r_saved) \o TxtSuffix
            /\ IF Lower(PathSuffix(r_saved)) \in supported_suffixes
               THEN r_status' \in {"success", "failed"}
               ELSE r_status' = "skipped"
       ELSE r_output' = <<>> /\ r_status' = "not found"
    /\ r_pc' = "extracted"
    /\ UNCHANGED <<r_doc, r_saved, r_expected,
                   n_vars, d_vars, f_vars, b_vars, s_vars, z_vars, w_vars>>

\* get_document_text: text_filename = f"{filing_id}_{base_name}.txt", for a
\* document with a filing_id and a filename.
GetDocumentText ==
    /\ r_pc = "extracted"
    /\ r_expected' =
           IF r_doc.filing_id = <<>> \/ r_doc.filename = <<>> THEN <<>>
           ELSE r_doc.filing_id \o <<"_">>
                    \o PathStem(enrich_sanitize_filename(r_doc.filename)) \o TxtSuffix
    /\ r_pc' = "done"
    /\ UNCHANGED <<r_doc, r_saved, r_output, r_status,
                   n_vars, d_vars, f_vars, b_vars, s_vars, z_vars, w_vars>>

RelocateNext == OutputFilename \/ ProcessFile \/ GetDocumentText

SpecRelocate == RelocateInit /\ [][RelocateNext]_vars

\* Whether the text after the last '.' of a filename is pdf, docx or doc,
\* in letters of either case.
HasSupportedExtension(filename) ==
    LastDot(filename) > 0 /\ <<".">> \o Lower(Extension(filename)) \in supported_suffixes

\* C24: for every manifest document with a non-empty filing_id and a
\* filename with a supported extension, the text file name that the
\* enrichment step computes ({filing_id}_{stem of the sanitized
\* filename}.txt) is the name that the text extractor writes for the file
\* that the downloader saved as {filing_id}_{sanitize_filename(filename)}.
C24_RoundTrip ==
    (r_pc = "done" /\ r_doc.filing_id # <<>> /\ HasSupportedExtension(r_doc.filename)) =>
        r_expected = r_output

\* The part of C24 that the code keeps: the names agree when the filename
\* has something before its extension and the extension is in lower case.
C24_ExceptBareAndUpper ==
    (/\ r_pc = "done" /\ r_doc.filing_id # <<>>
     /\ LastDot(r_doc.filename) > 1
     /\ <<".">> \o Extension(r_doc.filename) \in supported_suffixes) =>
        r_expected = r_output

\* ---------------------------------------------------------------------
\* download_docs.py: download_all and its download_document tasks.
\*
\* The tasks of download_all run on one asyncio event loop: a task runs
\* without interruption from one await to the next, so each action below
\* is the code of download_document between two awaits.  Tasks differ
\* only by their position, so w_tasks is the bag of the positions of the
\* unfinished tasks: [pc, attempt] with pc "check" (created, not yet
\* run), "acquire" (suspended in the semaphore), "get" (awaiting the
\* response of client.get in iteration attempt) or "sleep" (awaiting
\* asyncio.sleep after iteration attempt).  w_results is the bag of the
\* results that download_all has collected: the status of the result and,
\* in ended, the statement at which download_document left ("exists":
\* the early return, "200": the return after saving, "404": the break,
\* "exhausted": the end of the loop).  A result is appended by
\* download_all as the task returns it.  w_docs holds the url of every
\* document of companies.json, in the order of the file.

MAX_CONCURRENT == 8

MAX_RETRIES == 3

MaxDocs == 9

Url(k) == Rep("u", k)

MaxRepeated == 4

\* The documents of companies.json: up to MaxDocs different urls, and up
\* to MaxRepeated different urls followed by a document without url and
\* by two documents with a url seen before.
Manifests ==
    { [k \in 1..n |-> Url(k)] : n \in 0..MaxDocs } \cup
    { [k \in 1..n |-> Url(k)] \o <<Url(0), Url(1), Url(1)>> : n \in 0..MaxRepeated }

\* The keys of docs_by_url in insertion order: the first document of each
\* non-empty url.
AddDoc(docs, url) ==
    IF url # <<>> /\ url \notin Range(docs) THEN Append(docs, url) ELSE docs

RECURSIVE docs_by_url(_)
docs_by_url(urls) ==
    IF urls = <<>> THEN <<>>
    ELSE AddDoc(docs_by_url(SubSeq(urls, 1, Len(urls) - 1)), urls[Len(urls)])

\* docs = list(docs_by_url.values()) of every manifest.
docs == [urls \in Manifests |-> docs_by_url(urls)]

Task(pc, attempt) == [pc |-> pc, attempt |-> attempt]

Result(status, ended) == [status |-> status, ended |-> ended]

One(e) == SetToBag({e})

\* asyncio.Semaphore.locked(): no permit left.
SemaphoreLocked_Never(value) == FALSE

SemaphoreLocked(value) == value = 0

\* for attempt in range(MAX_RETRIES): the value after attempt, and
\* whether there is one.
NextAttempt_Same(attempt) == attempt

NextAttempt(attempt) == attempt + 1

RangeHasNext(attempt) == attempt + 1 < MAX_RETRIES

Responses == {"200", "200 html error", "404", "500", "timeout"}

StatusCount(results, status) ==
    BagCardinality([r \in {x \in BagToSet(results) : x.status = status} |-> results[r]])

DownloadInit ==
    /\ w_pc = "run"
    /\ w_docs \in Manifests
    /\ w_tasks = IF docs[w_docs] = <<>> THEN EmptyBag
                 ELSE [t \in {Task("check", 0)} |-> Len(docs[w_docs])]
    /\ w_sem = MAX_CONCURRENT
    /\ w_results = EmptyBag
    /\ w_stats = <<>>
    /\ n_idle /\ d_idle /\ f_idle /\ b_idle /\ s_idle /\ z_idle /\ r_idle

\* The first run of a task: the test of the target file, then the entry
\* into the semaphore, which suspends the task only when no permit is left.
StartTask(exists) ==
    /\ w_pc = "run"
    /\ BagIn(Task("check", 0), w_tasks)
    /\ IF exists
          THEN /\ w_tasks' = w_tasks (-) One(Task("check", 0))
               /\ w_results' = w_results (+) One(Result("skipped", "exists"))
               /\ w_sem' = w_sem
          ELSE IF SemaphoreLocked(w_sem)
          THEN /\ w_tasks' = (w_tasks (-) One(Task("check", 0))) (+) One(Task("acquire", 0))
               /\ UNCHANGED <<w_results, w_sem>>
          ELSE /\ w_tasks' = (w_tasks (-) One(Task("check", 0))) (+) One(Task("get", 0))
               /\ w_sem' = w_sem - 1
               /\ w_results' = w_results
    /\ UNCHANGED <<w_pc, w_docs, w_stats,
                   n_vars, d_vars, f_vars, b_vars, s_vars, z_vars, r_vars>>

\* A suspended task is given a permit that another task released.
AcquireAfterWait ==
    /\ w_pc = "run"
    /\ BagIn(Task("acquire", 0), w_tasks)
    /\ ~SemaphoreLocked(w_sem)
    /\ w_tasks' = (w_tasks (-) One(Task("acquire", 0))) (+) One(Task("get", 0))
    /\ w_sem' = w_sem - 1
    /\ UNCHANGED <<w_pc, w_docs, w_results, w_stats,
                   n_vars, d_vars, f_vars, b_vars, s_vars, z_vars, r_vars>>

\* The task leaves download_document inside the semaphore: the permit is
\* released and download_all appends the result.
Return(task, status, ended) ==
    /\ w_tasks' = w_tasks (-) One(task)
    /\ w_sem' = w_sem + 1
    /\ w_results' = w_results (+) One(Result(status, ended))

Continue(task, next) ==
    /\ w_tasks' = (w_tasks (-) One(task)) (+) One(next)
    /\ UNCHANGED <<w_sem, w_results>>

\* The request of one iteration ends, by a response or by an exception.
Attempt(attempt, response) ==
    /\ w_pc = "run"
    /\ BagIn(Task("get", attempt), w_tasks)
    /\ IF response = "200"
          THEN Return(Task("get", attempt), "success", "200")
          ELSE IF response = "200 html error"
          THEN IF RangeHasNext(attempt)
                  THEN Continue(Task("get", attempt), Task("get", NextAttempt(attempt)))
                  ELSE Return(Task("get", attempt), "failed", "exhausted")
          ELSE IF response = "404"
          THEN Return(Task("get", attempt), "failed", "404")
          ELSE IF attempt < MAX_RETRIES - 1
          THEN Continue(Task("get", attempt), Task("sleep", attempt))
          ELSE Return(Task("get", attempt), "failed", "exhausted")
    /\ UNCHANGED <<w_pc, w_docs, w_stats,
                   n_vars, d_vars, f_vars, b_vars, s_vars, z_vars, r_vars>>

\* The pause before the next iteration is over.
Wake(attempt) ==
    /\ w_pc = "run"
    /\ BagIn(Task("sleep", attempt), w_tasks)
    /\ Continue(Task("sleep", attempt), Task("get", NextAttempt(attempt)))
    /\ UNCHANGED <<w_pc, w_docs, w_stats,
                   n_vars, d_vars, f_vars, b_vars, s_vars, z_vars, r_vars>>

\* as_completed is used up: download_all counts the results.
WriteStats ==
    /\ w_pc = "run"
    /\ w_tasks = EmptyBag
    /\ w_stats' = [total_documents |-> Len(docs[w_docs]),
                   success |-> StatusCount(w_results, "success"),
                   skipped |-> StatusCount(w_results, "skipped"),
                   failed |-> StatusCount(w_results, "failed")]
    /\ w_pc' = "done"
    /\ UNCHANGED <<w_docs, w_tasks, w_sem, w_results,
                   n_vars, d_vars, f_vars, b_vars, s_vars, z_vars, r_vars>>

DownloadNext ==
    \/ \E exists \in BOOLEAN : StartTask(exists)
    \/ AcquireAfterWait
    \/ \E attempt \in 0..MAX_RETRIES, response \in Responses : Attempt(attempt, response)
    \/ \E attempt \in 0..MAX_RETRIES : Wake(attempt)
    \/ WriteStats

SpecDownload == DownloadInit /\ [][DownloadNext]_vars

\* The event loop runs every task that can run, a request ends within
\* TIMEOUT and a pause ends: a step that is possible is taken.
FairSpecDownload == SpecDownload /\ WF_vars(DownloadNext)

\* The tasks between the entry into the semaphore and its exit.
Inside ==
    BagCardinality([t \in {x \in BagToSet(w_tasks) : x.pc \in {"get", "sleep"}} |-> w_tasks[t]])

\* C25: at every moment at most MAX_CONCURRENT tasks of download_all are
\* inside the section guarded by the semaphore, whatever the number of
\* documents and the order of the steps of the tasks.
C25_AtMostMaxConcurrent ==
    w_pc # "idle" => (Inside <= MAX_CONCURRENT /\ w_sem = MAX_CONCURRENT - Inside)

\* The section is full and a further task waits for a permit.
C25_Witness ==
    /\ w_pc = "run"
    /\ Inside = MAX_CONCURRENT
    /\ BagIn(Task("acquire", 0), w_tasks)
    /\ BagIn(Task("sleep", 1), w_tasks)

UniqueUrls == Range(w_docs) \ {<<>>}

C26_Safety ==
    w_pc # "idle" =>
      /\ \A t \in BagToSet(w_tasks) :
            /\ t.pc = "get" => t.attempt < MAX_RETRIES
            /\ t.pc = "sleep" => t.attempt < MAX_RETRIES - 1
      /\ BagCardinality(w_tasks) + BagCardinality(w_results) = Cardinality(UniqueUrls)
      /\ \A r \in BagToSet(w_results) :
            /\ r.status \in {"success", "skipped", "failed"}
            /\ r.status = "skipped" <=> r.ended = "exists"
            /\ r.status = "success" <=> r.ended = "200"
            /\ r.status = "failed" <=> r.ended \in {"404", "exhausted"}
      /\ w_pc = "done" =>
            /\ w_tasks = EmptyBag
            /\ w_stats.total_documents = Cardinality(UniqueUrls)
            /\ w_stats.success + w_stats.skipped + w_stats.failed = Cardinality(UniqueUrls)

====
